---------------------------- MODULE Spec2Model ----------------------------
(***************************************************************************)
(* TOOL/add_manga_metadata.py: the resumable concurrent batch pipeline.    *)
(*                                                                         *)
(* Two specifications share this module.                                   *)
(*   Spec        the task store and process_task's scheduler: one          *)
(*               process_file job per selected file on a bounded pool,     *)
(*               cooperative cancellation, the record-key rename.          *)
(*   SpecRewrite the archive rewriting engine on one archive, one file     *)
(*               system call per step: convert_nested_to_flat, *)
(*               process_zip_file's metadata injection and                 *)
(*               _update_cbz_content, with I/O exceptions and a process    *)
(*               crash possible at every step.                             *)
(***************************************************************************)
EXTENDS Integers, Sequences, FiniteSets, TLC

VARIABLES
    \* ---- task store (TaskManager.tasks[task_id]) ----
    files, \* task_data['files']: filename -> FileRecord
    file_keys, \* the insertion order of task_data['files'] (a dict)
    statistics,         \* task_data['statistics']
    \* ---- the folder, as the scheduler sees it ----
    disk, \* the archives of the folder: filename -> [origin, meta]
    \* ---- ZipMetadataAdder / command line of the current invocation ----
    to_cbz, dry_run, retry_failed, num_threads,
    shutdown_requested, \* self._shutdown_requested (threading.Event)
    \* ---- process_task (main thread) ----
    pc, \* position of the main thread
    files_to_process,   \* the list selected at the start of the run
    idx, \* enumerate() index of the dispatch loop, 0-based
    yielded, \* futures already produced by as_completed
    \* ---- the pool: one future per submitted file ----
    future, \* filename -> "none","queued","running","done","cancelled"
    jpc, \* filename -> position of its process_file job
    jloc, \* filename -> the job's locals (success, new_path, ...)
    \* ---- history kept for the properties ----
    updates, \* filename -> the update_file_status calls naming it:
                        \*   a sequence of [by |-> the job calling, status |-> ...]
    atFlag, \* at the moment the flag was set, was each job
                        \*   "notstarted", "running" or "done"
    startedAfterFlag,   \* jobs that began executing with the flag already set
    \* ---- the archive rewriting engine (SpecRewrite) ----
    fs, \* the files of one archive: path -> its content
    rpc, \* position inside process_zip_file and its callees
    rcfg, \* [to_cbz, ext] of the call
    pre, \* archive at zip_path when the current rewrite attempt began
    pre_call, \* archive at zip_path when process_zip_file was called
    conv_new, \* the flattened archive convert_nested_to_flat wrote
    conv_result,        \* convert_nested_to_flat's return value ("none" before)
    pzf_result,         \* process_zip_file's (success, new_path) ("none" before)
    crashed,            \* the process was killed; the value is the rpc it died at
    \* ---- MemoryCacheManager and the translation phase ----
    cache,              \* self.cache: key -> content
    access_count,       \* self.access_count: key -> number
    cache_order,        \* the keys in the dicts' insertion order
    max_size,           \* self.max_size
    translated,         \* what _translate_content returned for the current call
    metadata,           \* the tags of the metadata the provider returned
    \* ---- the TaskManager's store of tasks (SpecTasks) ----
    tasks,              \* self.tasks: task id -> task data
    last_op,            \* the TaskManager call made last, and what it returned
    persisted,          \* tasks_dir: task id -> the document in <task id>.json
    \* ---- DiskIOController (SpecThrottle); time is counted in 100 ms slices ----
    max_speed,          \* self.max_speed, in bytes per slice
    clock,              \* time.time()
    last_check_time,    \* self.last_check_time
    bytes_processed,    \* self.bytes_processed
    windows,            \* the measurement windows closed last, at most two:
                        \*   [bytes |-> admitted in it, elapsed |-> its length]
    \* ---- the lock of ZipMetadataAdder and its workers (SpecLock) ----
    lock_owner,         \* self._lock: the job holding it, or NoOwner
    wpc,                \* filename -> where its process_file job stands
    \* ---- process_task_batch and the SIGINT handler of the process ----
    pending_files,      \* process_task_batch: the list get_pending_files gave
    batch_i,            \* process_task_batch: the loop variable i
    batch_size,         \* process_task_batch: the parameter batch_size
    sigint,             \* signal.getsignal(signal.SIGINT)
    original_sigint_handler \* the local of the function that installed last

schedVars == <<files, file_keys, statistics, disk, to_cbz, dry_run,
               retry_failed, num_threads, shutdown_requested, pc,
               files_to_process, idx, yielded, future, jpc, jloc, updates,
               atFlag, startedAfterFlag>>
rwVars    == <<fs, rpc, rcfg, pre, pre_call, conv_new, conv_result, pzf_result,
               crashed>>
trVars    == <<cache, access_count, cache_order, max_size, translated,
               metadata>>
tmVars    == <<tasks, last_op, persisted>>
ioVars    == <<max_speed, clock, last_check_time, bytes_processed, windows>>
lkVars    == <<lock_owner, wpc>>
bVars     == <<pending_files, batch_i, batch_size, sigint,
               original_sigint_handler>>
vars      == <<schedVars, rwVars, trVars, tmVars, ioVars, lkVars, bVars>>

\* A directory is a function from the names that exist to what is there.
Exists(dir, name) == name \in DOMAIN dir
Remove(dir, name) == [n \in DOMAIN dir \ {name} |-> dir[n]]
Put(dir, name, content) ==
    [n \in DOMAIN dir \cup {name} |-> IF n = name THEN content ELSE dir[n]]

---------------------------------------------------------------------------
(* Bounds of the model.                                                    *)

MaxFiles   == 2     \* archives in the task's folder
MaxThreads == 2     \* largest num_threads tried

---------------------------------------------------------------------------
(* Filenames.  Parts(filename) is what the pattern                         *)
(*   ^\[(\d{6})\](.+)\.(zip|cbz)$                                          *)
(* looks at: the digits between the brackets, the stem, the extension.     *)

IdDigits == 6

A_zip   == "[123456]a.zip"
A_cbz   == "[123456]a.cbz"
B_zip   == "[654321]b.zip"
B_cbz   == "[654321]b.cbz"
Bad_zip == "[123]c.zip"
Bad_cbz == "[123]c.cbz"

\* what a folder may hold (create_task globs *.zip and *.cbz)
FolderNames == {A_zip, A_cbz, B_zip, Bad_zip}
\* every name a record or an archive can come to have
Names == FolderNames \cup {B_cbz, Bad_cbz}

Parts(filename) ==
    CASE filename = A_zip   -> [id |-> <<1, 2, 3, 4, 5, 6>>, stem |-> "a", ext |-> "zip"]
      [] filename = A_cbz   -> [id |-> <<1, 2, 3, 4, 5, 6>>, stem |-> "a", ext |-> "cbz"]
      [] filename = B_zip   -> [id |-> <<6, 5, 4, 3, 2, 1>>, stem |-> "b", ext |-> "zip"]
      [] filename = B_cbz   -> [id |-> <<6, 5, 4, 3, 2, 1>>, stem |-> "b", ext |-> "cbz"]
      [] filename = Bad_zip -> [id |-> <<1, 2, 3>>, stem |-> "c", ext |-> "zip"]
      [] filename = Bad_cbz -> [id |-> <<1, 2, 3>>, stem |-> "c", ext |-> "cbz"]

\* Python's None, where a path or an id is expected
NoPath == ""
NoId   == <<>>

\* extract_id without the count of digits in its pattern
extract_id_AnyDigits(filename) ==
    LET p == Parts(filename) IN
    IF p.id # <<>> /\ p.stem # "" THEN p.id ELSE NoId

\* ZipMetadataAdder.extract_id
extract_id(filename) ==
    LET p == Parts(filename) IN
    IF Len(p.id) = IdDigits /\ p.stem # "" THEN p.id ELSE NoId

\* zip_path.lower().endswith('.zip')
EndsWithZip(filename) == Parts(filename).ext = "zip"

\* zip_path[:-4] + '.cbz'
CbzPath(filename) ==
    CHOOSE n \in Names : Parts(n) = [Parts(filename) EXCEPT !.ext = "cbz"]

\* sorted(glob('*.zip') + glob('*.cbz')): a fixed total order of the names
NameRank(n) ==
    CASE n = A_cbz   -> 1
      [] n = A_zip   -> 2
      [] n = B_cbz   -> 3
      [] n = B_zip   -> 4
      [] n = Bad_cbz -> 5
      [] n = Bad_zip -> 6

RECURSIVE SortedSeq(_)
SortedSeq(S) ==
    IF S = {} THEN <<>>
    ELSE LET m == CHOOSE x \in S : \A y \in S : NameRank(x) <= NameRank(y)
         IN  <<m>> \o SortedSeq(S \ {m})

SeqRange(s) == {s[i] : i \in 1..Len(s)}

---------------------------------------------------------------------------
(* TaskManager                                                             *)

STATUS_PENDING == "pending"
STATUS_SUCCESS == "success"
STATUS_FAILED  == "failed"
STATUS_SKIPPED == "skipped"
Statuses == {STATUS_PENDING, STATUS_SUCCESS, STATUS_FAILED, STATUS_SKIPPED}

\* the record create_task seeds: it has no translation keys
SeedRecord ==
    [status |-> STATUS_PENDING, error |-> "", translation_status |-> "unset"]

\* the record update_file_status makes for a filename it does not know
FreshRecord ==
    [status |-> STATUS_PENDING, error |-> "", translation_status |-> "pending"]

\* TaskManager.create_task, for a folder holding the archives S
create_task_files(S) == [n \in S |-> SeedRecord]

create_task_statistics(S) ==
    [total |-> Cardinality(S), success |-> 0, failed |-> 0, skipped |-> 0,
     pending |-> Cardinality(S)]

\* _update_statistics without the decrement of the old status's counter
_update_statistics_NoDecrement(stats, old_status, new_status) ==
    CASE new_status = STATUS_SUCCESS -> [stats EXCEPT !.success = @ + 1]
      [] new_status = STATUS_FAILED  -> [stats EXCEPT !.failed = @ + 1]
      [] new_status = STATUS_SKIPPED -> [stats EXCEPT !.skipped = @ + 1]
      [] new_status = STATUS_PENDING -> [stats EXCEPT !.pending = @ + 1]
      [] OTHER -> stats

\* TaskManager._update_statistics
_update_statistics(stats, old_status, new_status) ==
    LET s1 == CASE old_status = STATUS_PENDING -> [stats EXCEPT !.pending = @ - 1]
                [] old_status = STATUS_SUCCESS -> [stats EXCEPT !.success = @ - 1]
                [] old_status = STATUS_FAILED  -> [stats EXCEPT !.failed = @ - 1]
                [] old_status = STATUS_SKIPPED -> [stats EXCEPT !.skipped = @ - 1]
                [] OTHER -> stats
    IN  CASE new_status = STATUS_SUCCESS -> [s1 EXCEPT !.success = @ + 1]
          [] new_status = STATUS_FAILED  -> [s1 EXCEPT !.failed = @ + 1]
          [] new_status = STATUS_SKIPPED -> [s1 EXCEPT !.skipped = @ + 1]
          [] new_status = STATUS_PENDING -> [s1 EXCEPT !.pending = @ + 1]
          [] OTHER -> s1

\* TaskManager.update_file_status: the files map after the call
update_file_status_files_NewRecord(fmap, filename, status, error_msg) ==
    [n \in DOMAIN fmap \cup {filename} |->
        IF n = filename
        THEN [FreshRecord EXCEPT !.status = status, !.error = error_msg]
        ELSE fmap[n]]

update_file_status_files(fmap, filename, status, error_msg) ==
    LET f1 == [n \in DOMAIN fmap \cup {filename} |->
                  IF n \in DOMAIN fmap THEN fmap[n] ELSE FreshRecord]
    IN  [f1 EXCEPT ![filename].status = status, ![filename].error = error_msg]

\* TaskManager.update_file_status: the statistics after the call
update_file_status_stats(fmap, stats, filename, status) ==
    LET old_status == IF filename \in DOMAIN fmap THEN fmap[filename].status
                      ELSE STATUS_PENDING
    IN  _update_statistics(stats, old_status, status)

\* TaskManager.update_file_translation_status: the files map after the call
update_file_translation_status_files(fmap, filename, translation_status) ==
    LET f1 == [n \in DOMAIN fmap \cup {filename} |->
                  IF n \in DOMAIN fmap THEN fmap[n] ELSE FreshRecord]
    IN  [f1 EXCEPT ![filename].translation_status = translation_status]

\* the dict's key order after files[filename] = ... (a new key goes last)
KeysWith(keys, filename) ==
    IF filename \in SeqRange(keys) THEN keys ELSE Append(keys, filename)

\* the dict's key order after files.pop(filename)
KeysWithout(keys, filename) == SelectSeq(keys, LAMBDA n : n # filename)

\* TaskManager.get_pending_files / get_failed_files: in the dict's order
FilesWithStatus(fmap, keys, status) ==
    SelectSeq(keys, LAMBDA n : fmap[n].status = status)

\* get_pending_files without its status test
get_pending_files_All(fmap, keys) == keys
get_pending_files(fmap, keys) == FilesWithStatus(fmap, keys, STATUS_PENDING)
get_failed_files(fmap, keys)  == FilesWithStatus(fmap, keys, STATUS_FAILED)

\* process_file's record-key rename: files.pop(filename); files[new_filename] = it
RenameKey(fmap, filename, new_filename) ==
    IF filename \in DOMAIN fmap
    THEN [n \in (DOMAIN fmap \ {filename}) \cup {new_filename} |->
             IF n = new_filename THEN fmap[filename] ELSE fmap[n]]
    ELSE fmap

RenameKeyOrder(keys, filename, new_filename) ==
    IF filename \in SeqRange(keys)
    THEN KeysWith(KeysWithout(keys, filename), new_filename)
    ELSE keys

---------------------------------------------------------------------------
(* The folder as the scheduler sees it: which archive is at which name.    *)
(* origin is the name the archive had when the task was created; meta      *)
(* tells whether metadata.json has been injected, and whether its tags     *)
(* have been translated.                                                   *)

Archive(origin, meta) == [origin |-> origin, meta |-> meta]

InitDisk(S) == [n \in S |-> Archive(n, "none")]

NoLocals == [success |-> FALSE, new_path |-> NoPath, translation_success |-> FALSE]

\* file_to_translate = new_path if new_path and new_path != archive_path else archive_path
file_to_translate(filename, loc) ==
    IF loc.new_path # NoPath /\ loc.new_path # filename THEN loc.new_path
    ELSE filename

\* the archive paths process_zip_file(zip_path) opens, replaces or renames onto
RewritePaths(filename, cbz) ==
    {filename} \cup (IF cbz /\ EndsWithZip(filename) THEN {CbzPath(filename)}
                     ELSE {})

\* the archive paths a job is operating on in its current position
PathsInUse(filename) ==
    IF future[filename] # "running" THEN {}
    ELSE CASE jpc[filename] = "rewriting"   -> RewritePaths(filename, to_cbz)
           [] jpc[filename] = "translating" ->
                  {file_to_translate(filename, jloc[filename])}
           [] OTHER -> {}

\* history: job `by` called update_file_status(task_id, target, status, ...)
Called(hist, by, target, status) ==
    [hist EXCEPT ![target] = Append(@, [by |-> by, status |-> status])]

Submitted == {n \in Names : future[n] # "none"}
Running   == {n \in Names : future[n] = "running"}

\* ThreadPoolExecutor's work queue is FIFO: the queued job submitted first
NextQueued(n) ==
    /\ future[n] = "queued"
    /\ \E i \in 1..Len(files_to_process) :
          /\ files_to_process[i] = n
          /\ \A j \in 1..(i - 1) : future[files_to_process[j]] # "queued"

\* ThreadPoolExecutor.__exit__ -> shutdown(wait=True): every worker has ended
PoolIdle_NoWait == TRUE
PoolIdle == \A n \in Names : future[n] \notin {"queued", "running"}

\* process_file, "if not metadata: ... return False": where the job goes next
AfterNoMetadata_FallThrough == "final"
AfterNoMetadata == "end"

---------------------------------------------------------------------------
(* MemoryCacheManager.  Its state is the two dicts and, because Python     *)
(* dicts iterate in insertion order, the order their keys were inserted.   *)

DefaultCacheSize == 50      \* --cache-size default

CacheState(c, a, o) == [cache |-> c, access_count |-> a, order |-> o]
EmptyCache == CacheState(<<>>, <<>>, <<>>)

\* key = f"{file_path}:{inner_path}"
CacheKey(file_path, inner_path) == <<file_path, ":", inner_path>>

\* get_cached_content: the value returned; NoContent stands for None
NoContent == <<"None">>
get_cached_content(cs, key) ==
    IF key \in DOMAIN cs.cache THEN cs.cache[key] ELSE NoContent

\* get_cached_content: the manager's state after the call
get_cached_content_state(cs, key) ==
    IF key \in DOMAIN cs.cache
    THEN [cs EXCEPT !.access_count =
             Put(cs.access_count, key,
                 (IF key \in DOMAIN cs.access_count THEN cs.access_count[key]
                  ELSE 0) + 1)]
    ELSE cs

\* min(self.access_count.keys(), key=lambda k: self.access_count[k]):
\* the first key, in insertion order, among those with the least count
min_access_key(cs) ==
    LET i == CHOOSE k \in 1..Len(cs.order) :
                /\ \A j \in 1..Len(cs.order) :
                      cs.access_count[cs.order[k]] <= cs.access_count[cs.order[j]]
                /\ \A j \in 1..(k - 1) :
                      cs.access_count[cs.order[j]] > cs.access_count[cs.order[k]]
    IN  cs.order[i]

\* _evict_least_used
_evict_least_used(cs) ==
    IF DOMAIN cs.access_count = {} THEN cs
    ELSE LET k == min_access_key(cs)
         IN  CacheState(IF Exists(cs.cache, k) THEN Remove(cs.cache, k)
                        ELSE cs.cache,
                        Remove(cs.access_count, k),
                        SelectSeq(cs.order, LAMBDA x : x # k))

\* cache_content: the manager's state after the call
cache_content(cs, key, content, size) ==
    LET c1 == IF Cardinality(DOMAIN cs.cache) >= size
              THEN _evict_least_used(cs) ELSE cs
    IN  CacheState(Put(c1.cache, key, content),
                   Put(c1.access_count, key, 1),
                   IF \E i \in 1..Len(c1.order) : c1.order[i] = key
                   THEN c1.order ELSE Append(c1.order, key))

\* before _translate_content has run
NoTranslation == [metadata_json |-> NoContent, comic_info_xml |-> NoContent,
                  all_translated |-> FALSE]

InitCacheIdle ==
    /\ cache = <<>>
    /\ access_count = <<>>
    /\ cache_order = <<>>
    /\ max_size = DefaultCacheSize
    /\ translated = NoTranslation
    /\ metadata = <<>>

---------------------------------------------------------------------------
(* Spec: state after create_task on a folder of at most MaxFiles archives. *)

\* what a path holds: a complete archive, or a file still being written
File(entries, complete) == [entries |-> entries, complete |-> complete]
NoFile == File(<<>>, FALSE)
NoResult == [success |-> "none", new_path |-> NoPath]

\* a TaskManager that has loaded no task, before any call
NoOp == [op |-> "none", path |-> <<>>, task_id |-> <<>>, existed |-> FALSE,
         ok |-> TRUE, raised |-> FALSE, saved |-> <<>>]

InitStoreIdle ==
    /\ tasks = <<>>
    /\ last_op = NoOp
    /\ persisted = <<>>

\* a DiskIOController without a limit that was never called
InitIoIdle ==
    /\ max_speed = 0
    /\ clock = 0
    /\ last_check_time = 0
    /\ bytes_processed = 0
    /\ windows = <<>>

\* the lock is free and no job has been started
NoOwner == ""
InitLockIdle ==
    /\ lock_owner = NoOwner
    /\ wpc = <<>>

\* the handlers SIGINT can have: Python's own, which raises KeyboardInterrupt,
\* and the three closures named signal_handler, by the function defining them
default_int_handler == "default_int_handler"
ProgramHandlers == {"process_task", "_process_batch", "translation_pass"}

\* no batch run was started; SIGINT has the handler Python starts with
InitBatchIdle ==
    /\ pending_files = <<>>
    /\ batch_i = 0
    /\ batch_size = 1
    /\ sigint = default_int_handler
    /\ original_sigint_handler = default_int_handler

InitRewriteIdle ==
    /\ fs = <<>>
    /\ rpc = "off"
    /\ rcfg = [to_cbz |-> FALSE, ext |-> "zip"]
    /\ pre = NoFile
    /\ pre_call = NoFile
    /\ conv_new = NoFile
    /\ conv_result = "none"
    /\ pzf_result = NoResult
    /\ crashed = "no"

\* TaskManager.create_task on a folder holding the archives S, and a fresh
\* ZipMetadataAdder
InitTask(S) ==
    /\ files = create_task_files(S)
    /\ file_keys = SortedSeq(S)
    /\ statistics = create_task_statistics(S)
    /\ disk = InitDisk(S)
    /\ to_cbz = FALSE
    /\ dry_run = FALSE
    /\ retry_failed = FALSE
    /\ num_threads = 1
    /\ shutdown_requested = FALSE
    /\ pc = "idle"
    /\ files_to_process = <<>>
    /\ idx = 0
    /\ yielded = {}
    /\ future = [n \in Names |-> "none"]
    /\ jpc = [n \in Names |-> "none"]
    /\ jloc = [n \in Names |-> NoLocals]
    /\ updates = [n \in Names |-> <<>>]
    /\ atFlag = [n \in Names |-> "notstarted"]
    /\ startedAfterFlag = {}

Init ==
    /\ \E S \in SUBSET FolderNames :
          /\ S # {}
          /\ Cardinality(S) <= MaxFiles
          /\ InitTask(S)
    /\ InitRewriteIdle
    /\ InitStoreIdle
    /\ InitIoIdle
    /\ InitLockIdle
    /\ InitBatchIdle
    /\ InitCacheIdle

\* the positions of process_task, of _process_batch and of the translation
\* pass at its end in which a ThreadPoolExecutor is open
ExecutorOpen ==
    {"dispatch", "sleep", "wait", "join",
     "b_dispatch", "b_wait", "b_join",
     "t_dispatch", "t_sleep", "t_wait", "t_join"}

\* a signal_handler of the program handles SIGINT: one was installed by
\* signal.signal and no later call has put another handler in its place
HandlerInstalled == sigint \in ProgramHandlers

\* main() -> ZipMetadataAdder(...) -> process_task, up to the dispatch loop:
\* the options of the command line, the selection, the SIGINT handler.
StartTask ==
    /\ pc = "idle"
    /\ \E cbz \in BOOLEAN, dry \in BOOLEAN, retry \in BOOLEAN, nt \in 1..MaxThreads :
          /\ to_cbz' = cbz
          /\ dry_run' = dry
          /\ retry_failed' = retry
          /\ num_threads' = nt
          /\ files_to_process' = IF retry THEN get_failed_files(files, file_keys)
                                 ELSE get_pending_files(files, file_keys)
    /\ shutdown_requested' = FALSE
    /\ pc' = IF files_to_process' = <<>> THEN "done" ELSE "dispatch"
    /\ idx' = 0
    /\ yielded' = {}
    /\ future' = [n \in Names |-> "none"]
    /\ jpc' = [n \in Names |-> "none"]
    /\ jloc' = [n \in Names |-> NoLocals]
    /\ updates' = [n \in Names |-> <<>>]
    /\ atFlag' = [n \in Names |-> "notstarted"]
    /\ startedAfterFlag' = {}
    /\ original_sigint_handler' = sigint
    /\ sigint' = IF files_to_process' = <<>> THEN sigint ELSE "process_task"
    /\ UNCHANGED <<files, file_keys, statistics, disk, rwVars, trVars, tmVars,
                   ioVars, lkVars, pending_files, batch_i, batch_size>>

\* signal_handler: SIGINT while process_task's handler is installed
SignalHandler ==
    /\ HandlerInstalled
    /\ shutdown_requested' = TRUE
    /\ atFlag' = IF shutdown_requested THEN atFlag
                 ELSE [n \in Names |-> IF future[n] \in {"running", "done"}
                                       THEN future[n] ELSE "notstarted"]
    /\ UNCHANGED <<files, file_keys, statistics, disk, to_cbz, dry_run,
                   retry_failed, num_threads, pc, files_to_process, idx,
                   yielded,
                   future, jpc, jloc, updates, startedAfterFlag, rwVars,
                   trVars, tmVars, ioVars, lkVars, bVars>>

\* the dispatch loop: executor.submit(self.process_file, ...)
DispatchSubmit ==
    /\ pc = "dispatch"
    /\ idx < Len(files_to_process)
    /\ ~shutdown_requested
    /\ LET filename == files_to_process[idx + 1] IN
          /\ future' = [future EXCEPT ![filename] = "queued"]
          /\ jpc' = [jpc EXCEPT ![filename] = "start"]
    /\ idx' = idx + 1
    /\ pc' = IF (idx + 1) % num_threads = 0 THEN "sleep" ELSE "dispatch"
    /\ UNCHANGED <<files, file_keys, statistics, disk, to_cbz, dry_run,
                   retry_failed, num_threads, shutdown_requested,
                   files_to_process, yielded, jloc, updates,
                   atFlag, startedAfterFlag, rwVars, trVars, tmVars, ioVars, lkVars, bVars>>

\* the dispatch loop ends: the list is exhausted, or the flag is seen (break)
DispatchStop ==
    /\ pc = "dispatch"
    /\ idx >= Len(files_to_process) \/ shutdown_requested
    /\ pc' = IF Submitted # {} THEN "wait" ELSE "join"
    /\ UNCHANGED <<files, file_keys, statistics, disk, to_cbz, dry_run,
                   retry_failed, num_threads, shutdown_requested,
                   files_to_process, idx, yielded, future, jpc, jloc,
                   updates, atFlag, startedAfterFlag, rwVars, trVars, tmVars, ioVars, lkVars, bVars>>

\* the delay after every num_threads submissions ends (elapsed, or flag seen)
SleepDone ==
    /\ pc = "sleep"
    /\ pc' = "dispatch"
    /\ UNCHANGED <<files, file_keys, statistics, disk, to_cbz, dry_run,
                   retry_failed, num_threads, shutdown_requested,
                   files_to_process, idx, yielded, future, jpc, jloc,
                   updates, atFlag, startedAfterFlag, rwVars, trVars, tmVars, ioVars, lkVars, bVars>>

\* as_completed yields a finished future; then the flag is checked:
\* if set, every future not done is cancelled and the loop is left
AsCompletedYield(filename) ==
    /\ pc = "wait"
    /\ future[filename] = "done"
    /\ filename \notin yielded
    /\ yielded' = yielded \cup {filename}
    /\ IF shutdown_requested
       THEN /\ future' = [n \in Names |->
                            IF future[n] = "queued" THEN "cancelled" ELSE future[n]]
            /\ pc' = "join"
       ELSE /\ future' = future
            /\ pc' = IF yielded' = Submitted THEN "join" ELSE "wait"
    /\ UNCHANGED <<files, file_keys, statistics, disk, to_cbz, dry_run,
                   retry_failed, num_threads, shutdown_requested,
                   files_to_process, idx, jpc, jloc, updates,
                   atFlag, startedAfterFlag, rwVars, trVars, tmVars, ioVars, lkVars, bVars>>

\* as_completed(futures, timeout=1.0) raises TimeoutError: jobs are unfinished
AsCompletedTimeout_Cancels ==
    /\ pc = "wait"
    /\ \E n \in Submitted : future[n] \in {"queued", "running"}
    /\ pc' = "join"
    /\ future' = [n \in Names |->
                     IF future[n] = "queued" THEN "cancelled" ELSE future[n]]
    /\ UNCHANGED <<files, file_keys, statistics, disk, to_cbz, dry_run,
                   retry_failed, num_threads, shutdown_requested,
                   files_to_process, idx, yielded, jpc, jloc,
                   updates, atFlag, startedAfterFlag, rwVars, trVars, tmVars,
                   ioVars, lkVars, bVars>>
AsCompletedTimeout ==
    /\ pc = "wait"
    /\ \E n \in Submitted : future[n] \in {"queued", "running"}
    /\ pc' = "join"
    /\ UNCHANGED <<files, file_keys, statistics, disk, to_cbz, dry_run,
                   retry_failed, num_threads, shutdown_requested,
                   files_to_process, idx, yielded, future, jpc, jloc,
                   updates, atFlag, startedAfterFlag, rwVars, trVars, tmVars, ioVars, lkVars, bVars>>

\* leaving "with ThreadPoolExecutor(...)": wait for the workers, then the
\* finally block restores the SIGINT handler and process_task returns
ExecutorExit ==
    /\ pc = "join"
    /\ PoolIdle
    /\ pc' = "done"
    /\ sigint' = original_sigint_handler
    /\ UNCHANGED <<files, file_keys, statistics, disk, to_cbz, dry_run,
                   retry_failed, num_threads, shutdown_requested,
                   files_to_process, idx, yielded, future, jpc, jloc,
                   updates, atFlag, startedAfterFlag, rwVars, trVars, tmVars,
                   ioVars, lkVars, pending_files, batch_i, batch_size,
                   original_sigint_handler>>

\* a free worker thread takes the next work item and calls process_file
WorkerStart(filename) ==
    /\ pc \in ExecutorOpen
    /\ NextQueued(filename)
    /\ Cardinality(Running) < num_threads
    /\ future' = [future EXCEPT ![filename] = "running"]
    /\ startedAfterFlag' = IF shutdown_requested
                           THEN startedAfterFlag \cup {filename}
                           ELSE startedAfterFlag
    /\ UNCHANGED <<files, file_keys, statistics, disk, to_cbz, dry_run,
                   retry_failed, num_threads, shutdown_requested, pc,
                   files_to_process, idx, yielded, jpc, jloc, updates,
                   atFlag, rwVars, trVars, tmVars, ioVars, lkVars, bVars>>

---------------------------------------------------------------------------
(* process_file, one job per submitted file.  Every update of the task is  *)
(* made inside "with self._lock", so each is one step.                     *)

\* process_file: the filename does not match FILENAME_PATTERN
JobSkip(filename) ==
    /\ future[filename] = "running"
    /\ jpc[filename] = "start"
    /\ extract_id(filename) = NoId
    /\ files' = update_file_status_files(files, filename, STATUS_SKIPPED,
                                         "bad filename format")
    /\ file_keys' = KeysWith(file_keys, filename)
    /\ statistics' = update_file_status_stats(files, statistics, filename,
                                              STATUS_SKIPPED)
    /\ updates' = Called(updates, filename, filename, STATUS_SKIPPED)
    /\ jpc' = [jpc EXCEPT ![filename] = "end"]
    /\ future' = [future EXCEPT ![filename] = "done"]
    /\ UNCHANGED <<disk, to_cbz, dry_run, retry_failed, num_threads,
                   shutdown_requested, pc, files_to_process, idx, yielded,
                   jloc, atFlag, startedAfterFlag, rwVars, trVars, tmVars, ioVars, lkVars, bVars>>

\* process_file: self.parser.parse(manga_id) returns None
JobNoMetadata(filename) ==
    /\ future[filename] = "running"
    /\ jpc[filename] = "start"
    /\ extract_id(filename) # NoId
    /\ files' = update_file_status_files(files, filename, STATUS_FAILED,
                                         "fetching metadata failed")
    /\ file_keys' = KeysWith(file_keys, filename)
    /\ statistics' = update_file_status_stats(files, statistics, filename,
                                              STATUS_FAILED)
    /\ updates' = Called(updates, filename, filename, STATUS_FAILED)
    /\ jpc' = [jpc EXCEPT ![filename] = AfterNoMetadata]
    /\ future' = [future EXCEPT ![filename] =
                     IF AfterNoMetadata = "end" THEN "done" ELSE "running"]
    /\ UNCHANGED <<disk, to_cbz, dry_run, retry_failed, num_threads,
                   shutdown_requested, pc, files_to_process, idx, yielded,
                   jloc, atFlag, startedAfterFlag, rwVars, trVars, tmVars, ioVars, lkVars, bVars>>

\* process_file: the provider returned metadata; process_zip_file is entered.
\* With dry_run it returns (True, None) at once and translation follows.
JobGotMetadata(filename) ==
    /\ future[filename] = "running"
    /\ jpc[filename] = "start"
    /\ extract_id(filename) # NoId
    /\ IF dry_run
       THEN /\ jloc' = [jloc EXCEPT ![filename].success = TRUE]
            /\ jpc' = [jpc EXCEPT ![filename] = "translating"]
       ELSE /\ jloc' = jloc
            /\ jpc' = [jpc EXCEPT ![filename] = "rewriting"]
    /\ UNCHANGED <<files, file_keys, statistics, disk, to_cbz, dry_run,
                   retry_failed, num_threads, shutdown_requested, pc,
                   files_to_process, idx, yielded, future, updates,
                   atFlag, startedAfterFlag, rwVars, trVars, tmVars, ioVars, lkVars, bVars>>

\* process_zip_file returns.  Its steps on the file system are SpecRewrite's;
\* here only its outcome for the folder: the archive rewritten (and renamed
\* to .cbz with to_cbz), a failure that left the archive, or one that lost it.
JobRewriteEnd(filename) ==
    /\ future[filename] = "running"
    /\ jpc[filename] = "rewriting"
    /\ \E outcome \in {"ok", "fail_intact", "fail_lost"} :
          /\ ~Exists(disk, filename) => outcome = "fail_intact"
          /\ CASE outcome = "ok" ->
                    LET injected == Archive(disk[filename].origin,
                    "injected") IN
                    IF to_cbz /\ EndsWithZip(filename)
                    THEN /\ disk' = Put(Remove(disk, filename),
                                        CbzPath(filename), injected)
                         /\ jloc' = [jloc EXCEPT ![filename].success = TRUE,
                                       ![filename].new_path = CbzPath(filename)]
                    ELSE /\ disk' = Put(disk, filename, injected)
                         /\ jloc' = [jloc EXCEPT ![filename].success = TRUE]
               [] outcome = "fail_intact" ->
                    /\ disk' = disk
                    /\ jloc' = jloc
               [] outcome = "fail_lost" ->
                    /\ disk' = Remove(disk, filename)
                    /\ jloc' = jloc
          /\ jpc' = [jpc EXCEPT ![filename] =
                        IF outcome = "ok" THEN "translating" ELSE "final"]
    /\ UNCHANGED <<files, file_keys, statistics, to_cbz, dry_run, retry_failed,
                   num_threads, shutdown_requested, pc, files_to_process, idx,
                   yielded, future, updates, atFlag,
                   startedAfterFlag, rwVars, trVars, tmVars, ioVars, lkVars, bVars>>

\* translate_metadata_in_cbz(file_to_translate, task_id, filename) returns
JobTranslateEnd(filename) ==
    /\ future[filename] = "running"
    /\ jpc[filename] = "translating"
    /\ LET path == file_to_translate(filename, jloc[filename]) IN
       \E outcome \in {"all", "missing", "no_metadata", "error"} :
          \* the archive cannot be opened: the except branch
          /\ ~Exists(disk, path) => outcome = "error"
          \* neither metadata.json nor ComicInfo.xml is in the archive
          /\ (Exists(disk, path) /\ disk[path].meta = "none")
                => outcome \in {"no_metadata", "error"}
          /\ (Exists(disk, path) /\ disk[path].meta # "none")
                => outcome # "no_metadata"
          /\ disk' = IF outcome = "all" /\ ~dry_run
                     THEN [disk EXCEPT ![path].meta = "translated"]
                     ELSE disk
          /\ files' = update_file_translation_status_files(
                          files, filename,
                          IF outcome = "all" THEN "success" ELSE "failed")
          /\ file_keys' = KeysWith(file_keys, filename)
          /\ jloc' = [jloc EXCEPT ![filename].translation_success =
                                      (outcome = "all")]
    /\ jpc' = [jpc EXCEPT ![filename] = "final"]
    /\ UNCHANGED <<statistics, to_cbz, dry_run, retry_failed, num_threads,
                   shutdown_requested, pc, files_to_process, idx, yielded,
                   future, updates, atFlag, startedAfterFlag, rwVars, trVars, tmVars, ioVars, lkVars, bVars>>

\* process_file: "with self._lock:" the final status, and the key rename
JobFinal(filename) ==
    /\ future[filename] = "running"
    /\ jpc[filename] = "final"
    /\ LET loc == jloc[filename]
           final_success == loc.success /\ loc.translation_success
           renamed == loc.new_path # NoPath /\ loc.new_path # filename
           status == IF final_success THEN STATUS_SUCCESS ELSE STATUS_FAILED
           error_msg == IF final_success THEN ""
                        ELSE IF ~loc.success THEN "processing the file failed"
                        ELSE "translation failed"
           updated == update_file_status_files(files, filename, status, error_msg)
           updated_keys == KeysWith(file_keys, filename)
       IN  /\ files' = IF final_success /\ renamed
                       THEN RenameKey(updated, filename, loc.new_path)
                       ELSE updated
           /\ file_keys' = IF final_success /\ renamed
                           THEN RenameKeyOrder(updated_keys, filename,
                           loc.new_path)
                           ELSE updated_keys
           /\ statistics' = update_file_status_stats(files, statistics, filename,
                                                     status)
    /\ updates' = Called(updates, filename, filename,
                          IF jloc[filename].success
                             /\ jloc[filename].translation_success
                          THEN STATUS_SUCCESS ELSE STATUS_FAILED)
    /\ jpc' = [jpc EXCEPT ![filename] = "end"]
    /\ future' = [future EXCEPT ![filename] = "done"]
    /\ UNCHANGED <<disk, to_cbz, dry_run, retry_failed, num_threads,
                   shutdown_requested, pc, files_to_process, idx, yielded,
                   jloc, atFlag, startedAfterFlag, rwVars, trVars, tmVars, ioVars, lkVars, bVars>>

Next ==
    \/ StartTask
    \/ SignalHandler
    \/ DispatchSubmit
    \/ DispatchStop
    \/ SleepDone
    \/ AsCompletedTimeout
    \/ ExecutorExit
    \/ \E filename \in Names : AsCompletedYield(filename)
    \/ \E filename \in Names : WorkerStart(filename)
    \/ \E filename \in Names : JobSkip(filename)
    \/ \E filename \in Names : JobNoMetadata(filename)
    \/ \E filename \in Names : JobGotMetadata(filename)
    \/ \E filename \in Names : JobRewriteEnd(filename)
    \/ \E filename \in Names : JobTranslateEnd(filename)
    \/ \E filename \in Names : JobFinal(filename)

Spec == Init /\ [][Next]_vars

---------------------------------------------------------------------------
(* Properties of the task store and the scheduler (under Spec).            *)

CountWithStatus(status) ==
    Cardinality({n \in DOMAIN files : files[n].status = status})

TerminalStatuses == {STATUS_SUCCESS, STATUS_FAILED, STATUS_SKIPPED}

\* the jobs a worker thread has taken
Started == {n \in Names : future[n] \in {"running", "done"}}

\* C1: each of statistics.pending, .success, .failed and .skipped equals the
\* number of file records holding that status, so they sum to len(files).
C1_StatisticsCountRecords ==
    /\ statistics.pending = CountWithStatus(STATUS_PENDING)
    /\ statistics.success = CountWithStatus(STATUS_SUCCESS)
    /\ statistics.failed  = CountWithStatus(STATUS_FAILED)
    /\ statistics.skipped = CountWithStatus(STATUS_SKIPPED)
    /\ statistics.pending + statistics.success + statistics.failed
          + statistics.skipped = Cardinality(DOMAIN files)

\* C4: once the shutdown flag is set no job that had not begun executing is
\* started, and when the run has ended every file whose job had not started
\* at that moment is still pending.
C4_NoJobStartsAfterShutdown ==
    /\ startedAfterFlag = {}
    /\ (pc = "done" /\ shutdown_requested) =>
          \A n \in SeqRange(files_to_process) :
             atFlag[n] = "notstarted" =>
                n \in DOMAIN files /\ files[n].status = STATUS_PENDING

\* C5: when process_task returns, every job that had begun executing (in
\* particular every job executing when the flag was set) has run to its end
\* and has recorded a terminal status for its file; none is left inside a
\* rewrite.
C5_StartedJobsFinish ==
    pc = "done" =>
       \A n \in Names :
          /\ future[n] \notin {"queued", "running"}
          /\ (future[n] = "done" \/ atFlag[n] # "notstarted") =>
                /\ future[n] = "done"
                /\ jpc[n] = "end"
                /\ updates[n] # <<>>
                /\ updates[n][Len(updates[n])].by = n
                /\ updates[n][Len(updates[n])].status \in TerminalStatuses

\* a job that was executing, inside the archive rewrite or the translation
\* phase, when the flag was set, and the run has returned
C5_Witness ==
    /\ pc = "done"
    /\ shutdown_requested
    /\ \E n \in Names :
          /\ atFlag[n] = "running"
          /\ jloc[n].success
          /\ updates[n] # <<>>

\* C6: after a job that renamed its archive from .zip to .cbz has ended, the
\* task holds exactly one record for that archive, under the name the archive
\* has on disk, and no other record was overwritten, duplicated or lost.
C6_RecordFollowsRename ==
    \A n \in Names :
       (future[n] = "done" /\ jloc[n].new_path # NoPath) =>
          /\ (Exists(disk, jloc[n].new_path) /\ ~Exists(disk, n)) =>
                (jloc[n].new_path \in DOMAIN files /\ n \notin DOMAIN files)
          /\ Cardinality(DOMAIN files) = statistics.total

\* C7: no two worker jobs operate on the same archive path at the same time.
C7_JobsOnDisjointPaths ==
    \A m \in Names, n \in Names :
       m # n => PathsInUse(m) \cap PathsInUse(n) = {}

---------------------------------------------------------------------------
(* Archives.  An archive is the sequence of its entries, in namelist()     *)
(* order; an entry name is the sequence of its path segments and "/"       *)
(* separators, so "f/1.png" is <<"f", "/", "1.png">> and the directory     *)
(* entry "f/" is <<"f", "/">>.                                             *)

MaxEntries == 2     \* entries of the archive the call starts from

Entry(name, data) == [name |-> name, data |-> data]

METADATA_JSON  == <<"metadata.json">>
COMICINFO_XML  == <<"ComicInfo.xml">>

\* What an entry holds.  A picture is an opaque value; metadata.json and
\* ComicInfo.xml are modelled by their tags, in order.
Picture(p) == <<p>>

\* the entries an input archive is made from, in a fixed order
EntryPool ==
    << Entry(<<"f", "/">>, <<>>),
       Entry(<<"f", "/", "1.png">>, Picture("p1")),
       Entry(<<"f", "/", "s", "/", "2.png">>, Picture("p2")),
       Entry(<<"f", "/", "metadata.json">>, <<"en1">>),
       Entry(<<"1.png">>, Picture("p1")),
       Entry(METADATA_JSON, <<"en1">>),
       Entry(COMICINFO_XML, <<"en1">>) >>

\* the entries of EntryPool at the indices I, in the pool's order
RECURSIVE PoolSeq(_, _)
PoolSeq(I, from) ==
    IF from > Len(EntryPool) THEN <<>>
    ELSE (IF from \in I THEN <<EntryPool[from]>> ELSE <<>>) \o PoolSeq(I, from + 1)

InputArchives ==
    {PoolSeq(I, 1) : I \in {J \in SUBSET (1..Len(EntryPool)) :
                                Cardinality(J) <= MaxEntries}}

namelist(archive) == [i \in 1..Len(archive) |-> archive[i].name]

\* item.rstrip('/')
RECURSIVE rstrip(_)
rstrip(name) ==
    IF name # <<>> /\ name[Len(name)] = "/"
    THEN rstrip(SubSeq(name, 1, Len(name) - 1)) ELSE name

\* '/' in item
HasSlash(name) == \E i \in 1..Len(name) : name[i] = "/"

\* item.split('/')[0]
RECURSIVE FirstSegment(_)
FirstSegment(name) ==
    IF name = <<>> \/ name[1] = "/" THEN <<>>
    ELSE <<name[1]>> \o FirstSegment(Tail(name))

\* item.startswith(prefix)
StartsWith(name, prefix) ==
    Len(name) >= Len(prefix) /\ SubSeq(name, 1, Len(prefix)) = prefix

\* item.endswith('/')
EndsWithSlash(name) == name # <<>> /\ name[Len(name)] = "/"

\* ZipStructureConverter.analyze_zip_structure on a readable archive:
\* [type, folder]; the folder is <<>> where the code returns None
root_level_items(file_list) ==
    {(IF HasSlash(rstrip(file_list[i])) THEN FirstSegment(rstrip(file_list[i]))
      ELSE rstrip(file_list[i])) :
        i \in {k \in 1..Len(file_list) : rstrip(file_list[k]) # <<>>}}

analyze_zip_structure(archive) ==
    LET file_list == namelist(archive)
        roots == root_level_items(file_list)
    IN  IF file_list = <<>> THEN [type |-> "unknown", folder |-> <<>>]
        ELSE IF Cardinality(roots) = 1
        THEN LET single_item == CHOOSE r \in roots : TRUE
                 is_folder ==
                    \E i \in 1..Len(file_list) :
                       /\ HasSlash(file_list[i])
                       /\ HasSlash(rstrip(file_list[i]))
                       /\ FirstSegment(rstrip(file_list[i])) = single_item
             IN  IF is_folder THEN [type |-> "nested", folder |-> single_item]
                 ELSE [type |-> "flat", folder |-> <<>>]
        ELSE [type |-> "flat", folder |-> <<>>]

\* convert_nested_to_flat copying every entry that is not a directory, under
\* its old name
FlattenEntries_NoStrip(archive, folder_name) ==
    SelectSeq(archive, LAMBDA e : ~EndsWithSlash(e.name))

\* convert_nested_to_flat: the entries written to the temporary archive
RECURSIVE FlattenEntries(_, _)
FlattenEntries(archive, folder_name) ==
    IF archive = <<>> THEN <<>>
    ELSE LET item == archive[1].name
             folder_prefix == folder_name \o <<"/">>
             new_name == SubSeq(item, Len(folder_prefix) + 1, Len(item))
             rest == FlattenEntries(Tail(archive), folder_name)
         IN  IF rstrip(item) = folder_name THEN rest
             ELSE IF StartsWith(item, folder_prefix)
                     /\ new_name # <<>> /\ ~EndsWithSlash(item)
             THEN <<Entry(new_name, archive[1].data)>> \o rest
             ELSE rest

\* the entries copied by process_zip_file and by _update_cbz_content:
\* every item not in ('metadata.json', 'ComicInfo.xml')
WithoutMetadataEntries(archive) ==
    SelectSeq(archive, LAMBDA e : e.name \notin {METADATA_JSON, COMICINFO_XML})

HasEntry(archive, name) == \E i \in 1..Len(archive) : archive[i].name = name

\* the content of the entry called name; NoContent when there is none
ReadEntry(archive, name) ==
    IF HasEntry(archive, name)
    THEN archive[CHOOSE i \in 1..Len(archive) : archive[i].name = name].data
    ELSE NoContent

\* process_zip_file: the temporary archive of the metadata injection; the
\* fetched metadata is modelled by its tags, which generate_comic_info
\* copies into <Tags>
InjectEntries_KeepOld(archive, tags, with_comic_info) ==
    archive
       \o <<Entry(METADATA_JSON, tags)>>
       \o (IF with_comic_info THEN <<Entry(COMICINFO_XML, tags)>> ELSE <<>>)

InjectEntries(archive, tags, with_comic_info) ==
    WithoutMetadataEntries(archive)
       \o <<Entry(METADATA_JSON, tags)>>
       \o (IF with_comic_info THEN <<Entry(COMICINFO_XML, tags)>> ELSE <<>>)

\* _update_cbz_content(cbz_path, metadata_json, comic_info_xml): the temporary
\* archive; an argument that is None (NoContent) is not written
TranslatedEntries(archive, metadata_json, comic_info_xml) ==
    WithoutMetadataEntries(archive)
       \o (IF metadata_json # NoContent
           THEN <<Entry(METADATA_JSON, metadata_json)>> ELSE <<>>)
       \o (IF comic_info_xml # NoContent
           THEN <<Entry(COMICINFO_XML, comic_info_xml)>> ELSE <<>>)

---------------------------------------------------------------------------
(* Translator.  A tag is a string; the dictionary of database.json maps    *)
(* "en1" to "zh1" and knows no other tag.                                  *)

MaxTags == 2        \* tags of the metadata the provider returns

Tags == {"en1", "en2", "zh1"}

translation_dict == [t \in {"en1"} |-> "zh1"]

\* reverse_dict = {v: k for k, v in translation_dict.items()}
reverse_dict ==
    [v \in {translation_dict[k] : k \in DOMAIN translation_dict} |->
        CHOOSE k \in DOMAIN translation_dict : translation_dict[k] = v]

\* Translator.translate_tag: [tag, found]
translate_tag(tag) ==
    IF tag \in DOMAIN reverse_dict THEN [tag |-> tag, found |-> TRUE]
    ELSE IF tag \in DOMAIN translation_dict
    THEN [tag |-> translation_dict[tag], found |-> TRUE]
    ELSE [tag |-> tag, found |-> FALSE]

\* Translator.translate_tags_list: [tags, all_found]
translate_tags_list(tags) ==
    [tags |-> [i \in 1..Len(tags) |-> translate_tag(tags[i]).tag],
     all_found |-> \A i \in 1..Len(tags) : translate_tag(tags[i]).found]

\* _translate_content(metadata_json, comic_info_xml): what it returns.  A
\* document is replaced by its translation only when all its tags are found.
_translate_content(metadata_json, comic_info_xml) ==
    LET tj == translate_tags_list(metadata_json)
        tx == translate_tags_list(comic_info_xml)
        json_found == metadata_json = NoContent \/ tj.all_found
        xml_found  == comic_info_xml = NoContent \/ tx.all_found
    IN  [metadata_json |->
             IF metadata_json # NoContent /\ tj.all_found THEN tj.tags
             ELSE metadata_json,
         comic_info_xml |->
             IF comic_info_xml # NoContent /\ tx.all_found THEN tx.tags
             ELSE comic_info_xml,
         all_translated |-> json_found /\ xml_found]

\* _preload_batch_to_cache, for one file of the batch
_preload_batch_to_cache(cs, file_path, archive, size) ==
    LET c1 == IF HasEntry(archive, METADATA_JSON)
              THEN cache_content(cs, CacheKey(file_path, "metadata.json"),
                                 ReadEntry(archive, METADATA_JSON), size)
              ELSE cs
    IN  IF HasEntry(archive, COMICINFO_XML)
        THEN cache_content(c1, CacheKey(file_path, "ComicInfo.xml"),
                           ReadEntry(archive, COMICINFO_XML), size)
        ELSE c1

\* the tag lists the metadata provider may return
RECURSIVE TagLists(_)
TagLists(n) ==
    IF n = 0 THEN {<<>>}
    ELSE TagLists(n - 1)
           \cup {Append(l, t) : l \in {x \in TagLists(n - 1) : Len(x) = n - 1},
                                t \in Tags}

---------------------------------------------------------------------------
(* SpecRewrite: one process_file call on one archive, each file-system      *)
(* call a step of its own.  Any call inside a try block may raise, and the *)
(* process may be killed between any two calls.                            *)

ZIP_PATH   == "zip_path"            \* the path the call is given
TEMP_ZIP   == "zip_path.tmp"        \* zip_path + '.tmp'
BACKUP_ZIP == "zip_path.backup"     \* zip_path + '.backup'
CBZ_PATH   == "cbz_path"            \* zip_path[:-4] + '.cbz'
TEMP_CBZ   == "cbz_path.tmp"        \* cbz_path + '.tmp'

\* process_file: file_to_translate = new_path if new_path else archive_path
TranslatePath == IF pzf_result.new_path # NoPath THEN pzf_result.new_path
                 ELSE ZIP_PATH

TempOf(path) == IF path = CBZ_PATH THEN TEMP_CBZ ELSE TEMP_ZIP

\* os.rename(src, dst)
Rename(dir, src, dst) == Put(Remove(dir, src), dst, dir[src])

\* the except blocks: if os.path.exists(temp): os.remove(temp)
Cleanup(dir, temp) == IF Exists(dir, temp) THEN Remove(dir, temp) ELSE dir

InitRewrite ==
    /\ \E filename \in {A_zip, A_cbz}, cbz \in BOOLEAN, archive \in InputArchives :
          /\ InitTask({filename})
          /\ rcfg = [to_cbz |-> cbz, ext |-> Parts(filename).ext]
          /\ fs = Put(<<>>, ZIP_PATH, File(archive, TRUE))
          /\ pre_call = File(archive, TRUE)
          \* process_task_batch preloads the cache; process_task does not
          /\ \E batch_mode \in BOOLEAN :
                LET cs == IF batch_mode
                          THEN _preload_batch_to_cache(EmptyCache, ZIP_PATH,
                                                       archive,
                                                       DefaultCacheSize)
                          ELSE EmptyCache
                IN  /\ cache = cs.cache
                    /\ access_count = cs.access_count
                    /\ cache_order = cs.order
    \* the metadata MetadataParser.parse returned for the file
    /\ metadata \in TagLists(MaxTags)
    /\ max_size = DefaultCacheSize
    /\ translated = NoTranslation
    /\ InitStoreIdle
    /\ InitIoIdle
    /\ InitLockIdle
    /\ InitBatchIdle
    /\ rpc = "call"
    /\ pre = NoFile
    /\ conv_new = NoFile
    /\ conv_result = "none"
    /\ pzf_result = NoResult
    /\ crashed = "no"

\* process_zip_file, step 1: analyze_zip_structure(zip_path)
AnalyzeStructure ==
    /\ rpc = "call"
    /\ rpc' = IF analyze_zip_structure(fs[ZIP_PATH].entries).type = "nested"
              THEN "conv_open" ELSE "inj_open"
    /\ UNCHANGED <<schedVars, trVars, fs, rcfg, pre, pre_call, conv_new, conv_result,
                   pzf_result, crashed, tmVars, ioVars, lkVars, bVars>>

\* convert_nested_to_flat: ZipFile(temp_zip, 'w') creates the temporary file
ConvOpenTemp ==
    /\ rpc = "conv_open"
    /\ pre' = fs[ZIP_PATH]
    /\ fs' = Put(fs, TEMP_ZIP, File(<<>>, FALSE))
    /\ rpc' = "conv_write"
    /\ UNCHANGED <<schedVars, trVars, rcfg, pre_call, conv_new, conv_result, pzf_result,
                   crashed, tmVars, ioVars, lkVars, bVars>>

\* convert_nested_to_flat: the entries are written and the archive closed
ConvCloseTemp ==
    /\ rpc = "conv_write"
    /\ LET flat == File(FlattenEntries(fs[ZIP_PATH].entries,
                          analyze_zip_structure(fs[ZIP_PATH].entries).folder), TRUE)
       IN  /\ fs' = Put(fs, TEMP_ZIP, flat)
           /\ conv_new' = flat
    /\ rpc' = "conv_backup"
    /\ UNCHANGED <<schedVars, trVars, rcfg, pre, pre_call, conv_result, pzf_result,
                   crashed, tmVars, ioVars, lkVars, bVars>>

\* convert_nested_to_flat: os.rename(zip_path, backup_zip)
ConvRenameToBackup ==
    /\ rpc = "conv_backup"
    /\ fs' = Rename(fs, ZIP_PATH, BACKUP_ZIP)
    /\ rpc' = "conv_commit"
    /\ UNCHANGED <<schedVars, trVars, rcfg, pre, pre_call, conv_new, conv_result,
                   pzf_result, crashed, tmVars, ioVars, lkVars, bVars>>

\* convert_nested_to_flat: os.rename(temp_zip, zip_path)
ConvRenameTemp ==
    /\ rpc = "conv_commit"
    /\ fs' = Rename(fs, TEMP_ZIP, ZIP_PATH)
    /\ rpc' = "conv_rmbackup"
    /\ UNCHANGED <<schedVars, trVars, rcfg, pre, pre_call, conv_new, conv_result,
                   pzf_result, crashed, tmVars, ioVars, lkVars, bVars>>

\* convert_nested_to_flat: os.remove(backup_zip), its failure swallowed;
\* return True
ConvRemoveBackup ==
    /\ rpc = "conv_rmbackup"
    /\ \E removed \in BOOLEAN :
          fs' = IF removed THEN Remove(fs, BACKUP_ZIP) ELSE fs
    /\ conv_result' = "True"
    /\ rpc' = "inj_open"
    /\ UNCHANGED <<schedVars, trVars, rcfg, pre, pre_call, conv_new, pzf_result, crashed, tmVars, ioVars, lkVars, bVars>>

\* convert_nested_to_flat: a call of the inner try block raises
ConvRaise ==
    /\ rpc \in {"conv_open", "conv_write", "conv_backup", "conv_commit"}
    /\ rpc' = "conv_except"
    /\ UNCHANGED <<schedVars, trVars, fs, rcfg, pre, pre_call, conv_new, conv_result,
                   pzf_result, crashed, tmVars, ioVars, lkVars, bVars>>

\* convert_nested_to_flat: the except block removes temp_zip and returns
\* False; process_zip_file returns (False, None)
ConvExcept ==
    /\ rpc = "conv_except"
    /\ fs' = Cleanup(fs, TEMP_ZIP)
    /\ conv_result' = "False"
    /\ pzf_result' = [success |-> "False", new_path |-> NoPath]
    /\ rpc' = "end"
    /\ UNCHANGED <<schedVars, trVars, rcfg, pre, pre_call, conv_new, crashed, tmVars, ioVars, lkVars, bVars>>

\* process_zip_file: ZipFile(zip_path, 'r'), ZipFile(temp_zip, 'w')
InjOpenTemp ==
    /\ rpc = "inj_open"
    /\ pre' = fs[ZIP_PATH]
    /\ fs' = Put(fs, TEMP_ZIP, File(<<>>, FALSE))
    /\ rpc' = "inj_write"
    /\ UNCHANGED <<schedVars, trVars, rcfg, pre_call, conv_new, conv_result, pzf_result,
                   crashed, tmVars, ioVars, lkVars, bVars>>

\* process_zip_file: entries copied, metadata written, the archive closed
InjCloseTemp ==
    /\ rpc = "inj_write"
    /\ fs' = Put(fs, TEMP_ZIP,
                 File(InjectEntries(fs[ZIP_PATH].entries, metadata,
                                    rcfg.to_cbz \/ rcfg.ext = "cbz"), TRUE))
    /\ rpc' = "inj_remove"
    /\ UNCHANGED <<schedVars, trVars, rcfg, pre, pre_call, conv_new, conv_result,
                   pzf_result, crashed, tmVars, ioVars, lkVars, bVars>>

\* process_zip_file: os.remove(zip_path)
InjRemove ==
    /\ rpc = "inj_remove"
    /\ fs' = Remove(fs, ZIP_PATH)
    /\ rpc' = "inj_rename"
    /\ UNCHANGED <<schedVars, trVars, rcfg, pre, pre_call, conv_new, conv_result,
                   pzf_result, crashed, tmVars, ioVars, lkVars, bVars>>

\* process_zip_file: os.rename(temp_zip, zip_path); without the .cbz rename
\* return (True, None)
InjRenameTemp ==
    /\ rpc = "inj_rename"
    /\ fs' = Rename(fs, TEMP_ZIP, ZIP_PATH)
    /\ IF rcfg.to_cbz /\ rcfg.ext = "zip"
       THEN /\ rpc' = "cbz_rename"
            /\ UNCHANGED pzf_result
       ELSE /\ rpc' = "translate"
            /\ pzf_result' = [success |-> "True", new_path |-> NoPath]
    /\ UNCHANGED <<schedVars, trVars, rcfg, pre, pre_call, conv_new, conv_result, crashed, tmVars, ioVars, lkVars, bVars>>

\* process_zip_file: os.rename(zip_path, cbz_path); return (True, cbz_path)
CbzRename ==
    /\ rpc = "cbz_rename"
    /\ fs' = Rename(fs, ZIP_PATH, CBZ_PATH)
    /\ pzf_result' = [success |-> "True", new_path |-> CBZ_PATH]
    /\ rpc' = "translate"
    /\ UNCHANGED <<schedVars, trVars, rcfg, pre, pre_call, conv_new, conv_result, crashed, tmVars, ioVars, lkVars, bVars>>

\* process_zip_file: a call of the try block raises
PzfRaise ==
    /\ rpc \in {"inj_open", "inj_write", "inj_remove", "inj_rename", "cbz_rename"}
    /\ rpc' = "pzf_except"
    /\ UNCHANGED <<schedVars, trVars, fs, rcfg, pre, pre_call, conv_new, conv_result,
                   pzf_result, crashed, tmVars, ioVars, lkVars, bVars>>

\* process_zip_file: the except block removes temp_zip, returns (False, None)
PzfExcept ==
    /\ rpc = "pzf_except"
    /\ fs' = Cleanup(fs, TEMP_ZIP)
    /\ pzf_result' = [success |-> "False", new_path |-> NoPath]
    /\ rpc' = "end"
    /\ UNCHANGED <<schedVars, trVars, rcfg, pre, pre_call, conv_new, conv_result, crashed, tmVars, ioVars, lkVars, bVars>>

\* the file of the task this call works for
RwFilename == file_keys[1]

\* translate_metadata_in_cbz: one document is fetched from the cache, or read
\* from the archive and cached: [content, cs]
ReadThroughCache(cs, path, inner_path, archive) ==
    LET key == CacheKey(path, inner_path)
        cached == get_cached_content(cs, key)
        cs1 == get_cached_content_state(cs, key)
    IN  IF cached # NoContent THEN [content |-> cached, cs |-> cs1]
        ELSE IF HasEntry(archive, <<inner_path>>)
        THEN [content |-> ReadEntry(archive, <<inner_path>>),
              cs |-> cache_content(cs1, key, ReadEntry(archive, <<inner_path>>),
                                   max_size)]
        ELSE [content |-> NoContent, cs |-> cs1]

\* update_file_translation_status(task_id, filename, translation_status, ...)
SetTranslationStatus(translation_status) ==
    /\ files' = update_file_translation_status_files(files, RwFilename,
                                                     translation_status)
    /\ file_keys' = KeysWith(file_keys, RwFilename)
    /\ UNCHANGED <<statistics, disk, to_cbz, dry_run, retry_failed, num_threads,
                   shutdown_requested, pc, files_to_process, idx, yielded,
                   future, jpc, jloc, updates, atFlag, startedAfterFlag>>

\* translate_metadata_in_cbz up to the decision: both documents are read
\* (through the cache) and _translate_content is applied.  With no document
\* or a tag without translation the status becomes failed and nothing is
\* written; otherwise _update_cbz_content is entered.
TranslateContent ==
    /\ rpc = "translate"
    /\ pre' = fs[TranslatePath]
    /\ LET archive == fs[TranslatePath].entries
           r1 == ReadThroughCache(CacheState(cache, access_count, cache_order),
                                  TranslatePath, "metadata.json", archive)
           r2 == ReadThroughCache(r1.cs, TranslatePath, "ComicInfo.xml", archive)
           result == _translate_content(r1.content, r2.content)
       IN  /\ cache' = r2.cs.cache
           /\ access_count' = r2.cs.access_count
           /\ cache_order' = r2.cs.order
           /\ translated' = result
           /\ IF r1.content = NoContent /\ r2.content = NoContent
              THEN /\ rpc' = "end"
                   /\ SetTranslationStatus("failed")
              ELSE IF result.all_translated
              THEN /\ rpc' = "upd_open"
                   /\ UNCHANGED schedVars
              ELSE /\ rpc' = "end"
                   /\ SetTranslationStatus("failed")
    /\ UNCHANGED <<max_size, metadata, fs, rcfg, pre_call, conv_new, conv_result,
                   pzf_result, crashed, tmVars, ioVars, lkVars, bVars>>

\* translate_metadata_in_cbz: opening the archive raises; the except branch
\* records the failure
TranslateRaise ==
    /\ rpc = "translate"
    /\ rpc' = "end"
    /\ SetTranslationStatus("failed")
    /\ UNCHANGED <<trVars, fs, rcfg, pre, pre_call, conv_new, conv_result,
                   pzf_result, crashed, tmVars, ioVars, lkVars, bVars>>

\* _update_cbz_content: ZipFile(cbz_path, 'r'), ZipFile(temp_cbz, 'w')
UpdOpenTemp ==
    /\ rpc = "upd_open"
    /\ pre' = fs[TranslatePath]
    /\ fs' = Put(fs, TempOf(TranslatePath), File(<<>>, FALSE))
    /\ rpc' = "upd_write"
    /\ UNCHANGED <<schedVars, trVars, rcfg, pre_call, conv_new, conv_result, pzf_result,
                   crashed, tmVars, ioVars, lkVars, bVars>>

\* _update_cbz_content: entries copied, translations written, archive closed
UpdCloseTemp ==
    /\ rpc = "upd_write"
    /\ fs' = Put(fs, TempOf(TranslatePath),
                 File(TranslatedEntries(fs[TranslatePath].entries,
                                        translated.metadata_json,
                                        translated.comic_info_xml), TRUE))
    /\ rpc' = "upd_remove"
    /\ UNCHANGED <<schedVars, trVars, rcfg, pre, pre_call, conv_new, conv_result,
                   pzf_result, crashed, tmVars, ioVars, lkVars, bVars>>

\* _update_cbz_content: if os.path.exists(cbz_path): os.remove(cbz_path)
UpdRemove ==
    /\ rpc = "upd_remove"
    /\ fs' = IF Exists(fs, TranslatePath) THEN Remove(fs, TranslatePath) ELSE fs
    /\ rpc' = "upd_rename"
    /\ UNCHANGED <<schedVars, trVars, rcfg, pre, pre_call, conv_new, conv_result,
                   pzf_result, crashed, tmVars, ioVars, lkVars, bVars>>

\* _update_cbz_content: os.rename(temp_cbz, cbz_path); back in
\* translate_metadata_in_cbz the translation status becomes success
UpdRenameTemp ==
    /\ rpc = "upd_rename"
    /\ fs' = Rename(fs, TempOf(TranslatePath), TranslatePath)
    /\ rpc' = "end"
    /\ SetTranslationStatus("success")
    /\ UNCHANGED <<trVars, rcfg, pre, pre_call, conv_new, conv_result,
                   pzf_result, crashed, tmVars, ioVars, lkVars, bVars>>

\* _update_cbz_content: a call of the try block raises
UpdRaise ==
    /\ rpc \in {"upd_open", "upd_write", "upd_remove", "upd_rename"}
    /\ rpc' = "upd_except"
    /\ UNCHANGED <<schedVars, trVars, fs, rcfg, pre, pre_call, conv_new, conv_result,
                   pzf_result, crashed, tmVars, ioVars, lkVars, bVars>>

\* _update_cbz_content: the except block removes temp_cbz and re-raises;
\* translate_metadata_in_cbz records the failure and returns False
UpdExcept ==
    /\ rpc = "upd_except"
    /\ fs' = Cleanup(fs, TempOf(TranslatePath))
    /\ rpc' = "end"
    /\ SetTranslationStatus("failed")
    /\ UNCHANGED <<trVars, rcfg, pre, pre_call, conv_new, conv_result,
                   pzf_result, crashed, tmVars, ioVars, lkVars, bVars>>

\* the process is killed or the power is lost: the file system stays as it is
Crash ==
    /\ rpc \notin {"off", "end", "crashed"}
    /\ crashed' = rpc
    /\ rpc' = "crashed"
    /\ UNCHANGED <<schedVars, trVars, fs, rcfg, pre, pre_call, conv_new, conv_result,
                   pzf_result, tmVars, ioVars, lkVars, bVars>>

NextRewrite ==
    \/ AnalyzeStructure
    \/ ConvOpenTemp
    \/ ConvCloseTemp
    \/ ConvRenameToBackup
    \/ ConvRenameTemp
    \/ ConvRemoveBackup
    \/ ConvRaise
    \/ ConvExcept
    \/ InjOpenTemp
    \/ InjCloseTemp
    \/ InjRemove
    \/ InjRenameTemp
    \/ CbzRename
    \/ PzfRaise
    \/ PzfExcept
    \/ TranslateContent
    \/ TranslateRaise
    \/ UpdOpenTemp
    \/ UpdCloseTemp
    \/ UpdRemove
    \/ UpdRenameTemp
    \/ UpdRaise
    \/ UpdExcept
    \/ Crash

SpecRewrite == InitRewrite /\ [][NextRewrite]_vars

---------------------------------------------------------------------------
(* Properties of the archive rewriter (under SpecRewrite).                 *)

\* C2: a crash between the completion of the temporary archive and the final
\* rename (metadata injection, translation update) leaves the archive at its
\* path exactly as it was before the rewrite, so the .tmp file is never the
\* only surviving copy.
C2_CrashLeavesOriginal ==
    /\ crashed \in {"inj_remove", "inj_rename"} =>
          Exists(fs, ZIP_PATH) /\ fs[ZIP_PATH] = pre
    /\ crashed \in {"upd_remove", "upd_rename"} =>
          Exists(fs, TranslatePath) /\ fs[TranslatePath] = pre

\* C3: at every point of convert_nested_to_flat's commit sequence, a crash
\* there included, the original path holds the complete old archive or the
\* complete new one.
C3_ReaderSeesOldOrNew ==
    (\/ rpc \in {"conv_backup", "conv_commit", "conv_rmbackup"}
     \/ crashed \in {"conv_backup", "conv_commit", "conv_rmbackup"}) =>
        /\ Exists(fs, ZIP_PATH)
        /\ fs[ZIP_PATH].complete
        /\ fs[ZIP_PATH] \in {pre, conv_new}

\* C9: when convert_nested_to_flat has returned False, the .tmp file does not
\* exist and the original path holds exactly the content it had at the call.
C9_ConvertFailureRestores ==
    conv_result = "False" =>
        /\ ~Exists(fs, TEMP_ZIP)
        /\ Exists(fs, ZIP_PATH)
        /\ fs[ZIP_PATH] = pre_call

\* C10: when process_zip_file has reported failure, the .tmp file is gone and
\* the archive at zip_path holds exactly the content it had at the call.
C10_FailureLeavesOriginal ==
    pzf_result.success = "False" =>
        /\ ~Exists(fs, TEMP_ZIP)
        /\ Exists(fs, ZIP_PATH)
        /\ fs[ZIP_PATH] = pre_call

---------------------------------------------------------------------------
(* Properties of the status a job records (under Spec).                    *)

\* the status of the one update_file_status call job n has made
RecordedStatus(n) == updates[n][Len(updates[n])].status

\* C11: a job sets its file to success only if process_zip_file and the
\* translation phase both succeeded for it; so in every state a record whose
\* status is success has translation_status success, and a job whose
\* translation phase failed has recorded failed.
C11_SuccessNeedsBoth ==
    /\ \A n \in Names :
          (future[n] = "done" /\ RecordedStatus(n) = STATUS_SUCCESS) =>
              (jloc[n].success /\ jloc[n].translation_success)
    /\ \A n \in Names :
          (future[n] = "done" /\ jloc[n].success
                 /\ ~jloc[n].translation_success) =>
              RecordedStatus(n) = STATUS_FAILED
    /\ \A n \in DOMAIN files :
          files[n].status = STATUS_SUCCESS =>
              files[n].translation_status = "success"

---------------------------------------------------------------------------
(* Properties of the translation phase (under SpecRewrite).                *)

\* some tag of the document has no translation
HasUntranslatedTag(document) ==
    /\ document # NoContent
    /\ \E i \in 1..Len(document) : ~translate_tag(document[i]).found

\* the translation phase of the call has ended (pre is the archive it began with)
TranslationPhaseEnded ==
    rpc = "end" /\ pzf_result.success = "True" /\ pre.complete

\* C12: translation is all-or-nothing.  When the translation phase has ended
\* and a tag of the archive's metadata.json or ComicInfo.xml has no
\* translation, the archive is exactly as it was before the phase and the
\* file's translation_status is failed.
C12_TranslationAllOrNothing ==
    (/\ TranslationPhaseEnded
     /\ \/ HasUntranslatedTag(ReadEntry(pre.entries, METADATA_JSON))
        \/ HasUntranslatedTag(ReadEntry(pre.entries, COMICINFO_XML)))
    => /\ Exists(fs, TranslatePath)
       /\ fs[TranslatePath] = pre
       /\ files[RwFilename].translation_status = "failed"

---------------------------------------------------------------------------
(* SpecBatch: main() with --batch-mode.  process_task_batch on a fresh     *)
(* task, batch after batch, and _process_batch with the translation pass   *)
(* its body ends with.                                                     *)

\* TaskManager.get_untranslated_files: a record without the key counts as
\* 'pending'
get_untranslated_files(fmap, keys) ==
    SelectSeq(keys, LAMBDA n : fmap[n].translation_status \in {"unset", "pending"})

\* the folder when the task is created: an archive may already hold a
\* metadata.json written by an earlier tool
InitBatch ==
    /\ \E S \in SUBSET FolderNames :
          /\ S # {}
          /\ Cardinality(S) <= MaxFiles
          /\ InitTask(S)
    /\ InitRewriteIdle
    /\ InitStoreIdle
    /\ InitIoIdle
    /\ InitLockIdle
    /\ InitBatchIdle
    /\ InitCacheIdle

\* the archives of the folder hold what an earlier tool left in them
FolderPrepared ==
    /\ pc = "idle"
    /\ \E with_metadata \in SUBSET DOMAIN disk :
          disk' = [n \in DOMAIN disk |->
                      Archive(n, IF n \in with_metadata THEN "injected" ELSE "none")]
    /\ pc' = "ready"
    /\ UNCHANGED <<files, file_keys, statistics, to_cbz, dry_run, retry_failed,
                   num_threads, shutdown_requested, files_to_process, idx,
                   yielded, future, jpc, jloc, updates, atFlag,
                   startedAfterFlag, rwVars, trVars, tmVars, ioVars, lkVars, bVars>>

\* process_task_batch: batch_files = files_to_process[i:i + batch_size]
BatchFiles(pending, i, size) ==
    SubSeq(pending, i + 1,
           IF i + size < Len(pending) THEN i + size ELSE Len(pending))

\* main() -> process_task_batch, up to the dispatch loop of _process_batch
\* for the first batch: the handler of _process_batch is installed
StartBatch ==
    /\ pc = "ready"
    /\ \E cbz \in BOOLEAN, dry \in BOOLEAN, nt \in 1..MaxThreads,
          size \in {1, MaxFiles} :
          /\ to_cbz' = cbz
          /\ dry_run' = dry
          /\ num_threads' = nt
          /\ batch_size' = size
    /\ pending_files' = get_pending_files(files, file_keys)
    /\ batch_i' = 0
    /\ files_to_process' = BatchFiles(pending_files', 0, batch_size')
    /\ pc' = IF pending_files' = <<>> THEN "done" ELSE "b_dispatch"
    /\ idx' = 0
    /\ original_sigint_handler' = sigint
    /\ sigint' = IF pending_files' = <<>> THEN sigint ELSE "_process_batch"
    /\ UNCHANGED <<files, file_keys, statistics, disk, retry_failed,
                   shutdown_requested, yielded, future, jpc, jloc, updates,
                   atFlag, startedAfterFlag, rwVars, trVars, tmVars, ioVars,
                   lkVars>>

\* _process_batch: executor.submit(self.process_file, ...)
BatchSubmit ==
    /\ pc = "b_dispatch"
    /\ idx < Len(files_to_process)
    /\ ~shutdown_requested
    /\ LET filename == files_to_process[idx + 1] IN
          /\ future' = [future EXCEPT ![filename] = "queued"]
          /\ jpc' = [jpc EXCEPT ![filename] = "start"]
    /\ idx' = idx + 1
    /\ UNCHANGED <<files, file_keys, statistics, disk, to_cbz, dry_run,
                   retry_failed, num_threads, shutdown_requested, pc,
                   files_to_process, yielded, jloc, updates, atFlag,
                   startedAfterFlag, rwVars, trVars, tmVars, ioVars, lkVars, bVars>>

\* _process_batch: the submit loop ends (list exhausted, or break on the flag)
BatchDispatchStop ==
    /\ pc = "b_dispatch"
    /\ idx >= Len(files_to_process) \/ shutdown_requested
    /\ pc' = IF Submitted # {} THEN "b_wait" ELSE "b_join"
    /\ UNCHANGED <<files, file_keys, statistics, disk, to_cbz, dry_run,
                   retry_failed, num_threads, shutdown_requested,
                   files_to_process, idx, yielded, future, jpc, jloc,
                   updates, atFlag, startedAfterFlag, rwVars, trVars, tmVars, ioVars, lkVars, bVars>>

\* _process_batch: as_completed(futures, timeout=30.0) yields a finished future
BatchYield(filename) ==
    /\ pc = "b_wait"
    /\ future[filename] = "done"
    /\ filename \notin yielded
    /\ yielded' = yielded \cup {filename}
    /\ pc' = IF yielded' = Submitted THEN "b_join" ELSE "b_wait"
    /\ UNCHANGED <<files, file_keys, statistics, disk, to_cbz, dry_run,
                   retry_failed, num_threads, shutdown_requested,
                   files_to_process, idx, future, jpc, jloc, updates,
                   atFlag, startedAfterFlag, rwVars, trVars, tmVars, ioVars, lkVars, bVars>>

\* _process_batch: as_completed raises TimeoutError, "except TimeoutError"
BatchTimeout ==
    /\ pc = "b_wait"
    /\ \E n \in Submitted : future[n] \in {"queued", "running"}
    /\ pc' = "b_join"
    /\ UNCHANGED <<files, file_keys, statistics, disk, to_cbz, dry_run,
                   retry_failed, num_threads, shutdown_requested,
                   files_to_process, idx, yielded, future, jpc, jloc,
                   updates, atFlag, startedAfterFlag, rwVars, trVars, tmVars, ioVars, lkVars, bVars>>

\* _process_batch: the executor is left, the finally block restores the
\* handler, and the body goes on: get_untranslated_files and, when a file is
\* to translate, a second signal_handler is installed before the submit loop
\* of the translation pass; with no file to translate _process_batch returns
BatchExit ==
    /\ pc = "b_join"
    /\ PoolIdle
    /\ files_to_process' = get_untranslated_files(files, file_keys)
    /\ pc' = IF files_to_process' = <<>> THEN "b_return" ELSE "t_dispatch"
    /\ sigint' = IF files_to_process' = <<>> THEN original_sigint_handler
                 ELSE "translation_pass"
    /\ idx' = 0
    /\ yielded' = {}
    /\ future' = [n \in Names |-> "none"]
    /\ jpc' = [n \in Names |-> "none"]
    /\ UNCHANGED <<files, file_keys, statistics, disk, to_cbz, dry_run,
                   retry_failed, num_threads, shutdown_requested, jloc,
                   updates, atFlag, startedAfterFlag, rwVars, trVars, tmVars,
                   ioVars, lkVars, pending_files, batch_i, batch_size,
                   original_sigint_handler>>

\* the translation pass: executor.submit(self._translate_single_file, ...)
TranslationSubmit ==
    /\ pc = "t_dispatch"
    /\ idx < Len(files_to_process)
    /\ ~shutdown_requested
    /\ LET filename == files_to_process[idx + 1] IN
          /\ future' = [future EXCEPT ![filename] = "queued"]
          /\ jpc' = [jpc EXCEPT ![filename] = "translate_single"]
    /\ idx' = idx + 1
    /\ pc' = IF (idx + 1) % num_threads = 0 THEN "t_sleep" ELSE "t_dispatch"
    /\ UNCHANGED <<files, file_keys, statistics, disk, to_cbz, dry_run,
                   retry_failed, num_threads, shutdown_requested,
                   files_to_process, yielded, jloc, updates, atFlag,
                   startedAfterFlag, rwVars, trVars, tmVars, ioVars, lkVars, bVars>>

\* the translation pass: the 2 s delay after every num_threads submissions
TranslationSleepDone ==
    /\ pc = "t_sleep"
    /\ pc' = "t_dispatch"
    /\ UNCHANGED <<files, file_keys, statistics, disk, to_cbz, dry_run,
                   retry_failed, num_threads, shutdown_requested,
                   files_to_process, idx, yielded, future, jpc, jloc,
                   updates, atFlag, startedAfterFlag, rwVars, trVars, tmVars, ioVars, lkVars, bVars>>

\* the translation pass: the submit loop ends; "if futures:" guards the wait
TranslationDispatchStop ==
    /\ pc = "t_dispatch"
    /\ idx >= Len(files_to_process) \/ shutdown_requested
    /\ pc' = IF Submitted # {} THEN "t_wait" ELSE "t_join"
    /\ UNCHANGED <<files, file_keys, statistics, disk, to_cbz, dry_run,
                   retry_failed, num_threads, shutdown_requested,
                   files_to_process, idx, yielded, future, jpc, jloc,
                   updates, atFlag, startedAfterFlag, rwVars, trVars, tmVars, ioVars, lkVars, bVars>>

\* the translation pass: as_completed(futures, timeout=1.0) yields; on the
\* flag every future not done is cancelled and the loop is left
TranslationYield(filename) ==
    /\ pc = "t_wait"
    /\ future[filename] = "done"
    /\ filename \notin yielded
    /\ yielded' = yielded \cup {filename}
    /\ IF shutdown_requested
       THEN /\ future' = [n \in Names |->
                            IF future[n] = "queued" THEN "cancelled" ELSE future[n]]
            /\ pc' = "t_join"
       ELSE /\ future' = future
            /\ pc' = IF yielded' = Submitted THEN "t_join" ELSE "t_wait"
    /\ UNCHANGED <<files, file_keys, statistics, disk, to_cbz, dry_run,
                   retry_failed, num_threads, shutdown_requested,
                   files_to_process, idx, jpc, jloc, updates, atFlag,
                   startedAfterFlag, rwVars, trVars, tmVars, ioVars, lkVars, bVars>>

\* the translation pass: as_completed raises TimeoutError
TranslationTimeout ==
    /\ pc = "t_wait"
    /\ \E n \in Submitted : future[n] \in {"queued", "running"}
    /\ pc' = "t_join"
    /\ UNCHANGED <<files, file_keys, statistics, disk, to_cbz, dry_run,
                   retry_failed, num_threads, shutdown_requested,
                   files_to_process, idx, yielded, future, jpc, jloc,
                   updates, atFlag, startedAfterFlag, rwVars, trVars, tmVars, ioVars, lkVars, bVars>>

\* the translation pass: the executor is left and _process_batch returns;
\* no statement after the pass calls signal.signal
TranslationExit ==
    /\ pc = "t_join"
    /\ PoolIdle
    /\ pc' = "b_return"
    /\ UNCHANGED <<files, file_keys, statistics, disk, to_cbz, dry_run,
                   retry_failed, num_threads, shutdown_requested,
                   files_to_process, idx, yielded, future, jpc, jloc,
                   updates, atFlag, startedAfterFlag, rwVars, trVars, tmVars, ioVars, lkVars, bVars>>

\* process_task_batch: _process_batch has returned, the cache is cleared and
\* the loop goes to the next batch, whose _process_batch installs its handler
\* over the one it finds; after the last batch process_task_batch returns
BatchLoop ==
    /\ pc = "b_return"
    /\ IF batch_i + batch_size < Len(pending_files)
       THEN /\ batch_i' = batch_i + batch_size
            /\ files_to_process' = BatchFiles(pending_files, batch_i', batch_size)
            /\ idx' = 0
            /\ yielded' = {}
            /\ future' = [n \in Names |-> "none"]
            /\ jpc' = [n \in Names |-> "none"]
            /\ original_sigint_handler' = sigint
            /\ sigint' = "_process_batch"
            /\ pc' = "b_dispatch"
       ELSE /\ pc' = "done"
            /\ UNCHANGED <<batch_i, files_to_process, idx, yielded, future,
                           jpc, original_sigint_handler, sigint>>
    /\ UNCHANGED <<files, file_keys, statistics, disk, to_cbz, dry_run,
                   retry_failed, num_threads, shutdown_requested, jloc,
                   updates, atFlag, startedAfterFlag, rwVars, trVars, tmVars,
                   ioVars, lkVars, pending_files, batch_size>>

\* _translate_single_file: translate_metadata_in_cbz(archive_path, ...) on
\* the file's own path, whatever the file's status
TranslateSingleFile(filename) ==
    /\ future[filename] = "running"
    /\ jpc[filename] = "translate_single"
    /\ \E outcome \in {"all", "missing", "no_metadata", "error"} :
          /\ ~Exists(disk, filename) => outcome = "error"
          /\ (Exists(disk, filename) /\ disk[filename].meta = "none")
                => outcome \in {"no_metadata", "error"}
          /\ (Exists(disk, filename) /\ disk[filename].meta # "none")
                => outcome # "no_metadata"
          /\ disk' = IF outcome = "all" /\ ~dry_run
                     THEN [disk EXCEPT ![filename].meta = "translated"]
                     ELSE disk
          /\ files' = update_file_translation_status_files(
                          files, filename,
                          IF outcome = "all" THEN "success" ELSE "failed")
          /\ file_keys' = KeysWith(file_keys, filename)
    /\ jpc' = [jpc EXCEPT ![filename] = "end"]
    /\ future' = [future EXCEPT ![filename] = "done"]
    /\ UNCHANGED <<statistics, to_cbz, dry_run, retry_failed, num_threads,
                   shutdown_requested, pc, files_to_process, idx, yielded,
                   jloc, updates, atFlag, startedAfterFlag, rwVars, trVars, tmVars, ioVars, lkVars, bVars>>

\* TaskManager.get_translation_failed_files: in the dict's order
get_translation_failed_files(fmap, keys) ==
    SelectSeq(keys, LAMBDA n : fmap[n].translation_status = "failed")

\* retry_failed_translations: "for filename in failed_files:
\* update_file_translation_status(task_id, filename, 'pending', '')"
RECURSIVE reset_failed(_, _)
reset_failed(fmap, failed_files) ==
    IF failed_files = <<>> THEN fmap
    ELSE reset_failed(
             update_file_translation_status_files(fmap, Head(failed_files),
                                                  "pending"),
             Tail(failed_files))

\* a later invocation, main() --retry-failed-translations on the task: a new
\* ZipMetadataAdder, then retry_failed_translations.  With no failed file it
\* returns; else it resets the failed files and calls
\* self.process_translation_only, a method the class does not have (the
\* body written for it is the end of _process_batch): AttributeError leaves
\* the call
RetryFailedTranslations ==
    /\ pc = "done"
    /\ LET failed_files == get_translation_failed_files(files, file_keys) IN
          /\ files_to_process' = failed_files
          /\ files' = reset_failed(files, failed_files)
          /\ pc' = IF failed_files = <<>> THEN "retry_returned"
                   ELSE "retry_raised"
    /\ shutdown_requested' = FALSE
    /\ sigint' = default_int_handler
    /\ original_sigint_handler' = default_int_handler
    /\ UNCHANGED <<file_keys, statistics, disk, to_cbz, dry_run,
                   retry_failed, num_threads, idx, yielded, future, jpc, jloc,
                   updates, atFlag, startedAfterFlag, rwVars, trVars, tmVars,
                   ioVars, lkVars, pending_files, batch_i, batch_size>>

NextBatch ==
    \/ FolderPrepared
    \/ StartBatch
    \/ SignalHandler
    \/ BatchSubmit
    \/ BatchDispatchStop
    \/ BatchTimeout
    \/ BatchExit
    \/ TranslationSubmit
    \/ TranslationSleepDone
    \/ TranslationDispatchStop
    \/ TranslationTimeout
    \/ TranslationExit
    \/ BatchLoop
    \/ RetryFailedTranslations
    \/ \E filename \in Names : BatchYield(filename)
    \/ \E filename \in Names : TranslationYield(filename)
    \/ \E filename \in Names : WorkerStart(filename)
    \/ \E filename \in Names : JobSkip(filename)
    \/ \E filename \in Names : JobNoMetadata(filename)
    \/ \E filename \in Names : JobGotMetadata(filename)
    \/ \E filename \in Names : JobRewriteEnd(filename)
    \/ \E filename \in Names : JobTranslateEnd(filename)
    \/ \E filename \in Names : JobFinal(filename)
    \/ \E filename \in Names : TranslateSingleFile(filename)

SpecBatch == InitBatch /\ [][NextBatch]_vars

\* C13: once a file's status is skipped, no step of the pipeline submits a
\* job for it, changes its status, or changes its archive.
C13_SkippedIsTerminal ==
    [][\A n \in DOMAIN files :
          files[n].status = STATUS_SKIPPED =>
             /\ n \in DOMAIN files' /\ files'[n].status = STATUS_SKIPPED
             /\ future'[n] = "queued" => future[n] = "queued"
             /\ Exists(disk, n) => (Exists(disk', n) /\ disk'[n] = disk[n])]_vars

---------------------------------------------------------------------------
(* SpecResume: process_task on a task that earlier runs have worked on.    *)
(* Every file is as one earlier job left it: not reached yet, successful,  *)
(* failed for want of metadata, failed in translation, or skipped.         *)

ResumeNames == {A_zip, B_zip, Bad_zip}

\* what an earlier job can have left for a file of this name
PriorOutcomes(filename) ==
    IF extract_id(filename) = NoId THEN {"pending", "skipped"}
    ELSE {"pending", "success", "no_metadata", "untranslated"}

\* the record the earlier job left: process_file's update_file_status calls
\* and translate_metadata_in_cbz's update_file_translation_status calls
PriorRecord(outcome) ==
    CASE outcome = "pending" -> SeedRecord
      [] outcome = "success" ->
            [status |-> STATUS_SUCCESS, error |-> "",
             translation_status |-> "success"]
      [] outcome = "no_metadata" ->
            [status |-> STATUS_FAILED, error |-> "fetching metadata failed",
             translation_status |-> "unset"]
      [] outcome = "untranslated" ->
            [status |-> STATUS_FAILED, error |-> "translation failed",
             translation_status |-> "failed"]
      [] outcome = "skipped" ->
            [status |-> STATUS_SKIPPED, error |-> "bad filename format",
             translation_status |-> "unset"]

\* the archive the earlier job left
PriorArchive(filename, outcome) ==
    Archive(filename, CASE outcome = "success" -> "translated"
                        [] outcome = "untranslated" -> "injected"
                        [] OTHER -> "none")

\* the statistics after the earlier jobs' _update_statistics calls
PriorStatistics(S, prior) ==
    LET count(o) == Cardinality({n \in S : PriorRecord(prior[n]).status = o})
    IN  [total |-> Cardinality(S), success |-> count(STATUS_SUCCESS),
         failed |-> count(STATUS_FAILED), skipped |-> count(STATUS_SKIPPED),
         pending |-> count(STATUS_PENDING)]

InitResume ==
    /\ \E S \in SUBSET ResumeNames :
          /\ S # {}
          /\ Cardinality(S) <= MaxFiles
          /\ \E prior \in [S -> {"pending", "success", "no_metadata",
                                 "untranslated", "skipped"}] :
                /\ \A n \in S : prior[n] \in PriorOutcomes(n)
                /\ files = [n \in S |-> PriorRecord(prior[n])]
                /\ disk = [n \in S |-> PriorArchive(n, prior[n])]
                /\ statistics = PriorStatistics(S, prior)
          /\ file_keys = SortedSeq(S)
    /\ to_cbz = FALSE
    /\ dry_run = FALSE
    /\ retry_failed = FALSE
    /\ num_threads = 1
    /\ shutdown_requested = FALSE
    /\ pc = "idle"
    /\ files_to_process = <<>>
    /\ idx = 0
    /\ yielded = {}
    /\ future = [n \in Names |-> "none"]
    /\ jpc = [n \in Names |-> "none"]
    /\ jloc = [n \in Names |-> NoLocals]
    /\ updates = [n \in Names |-> <<>>]
    /\ atFlag = [n \in Names |-> "notstarted"]
    /\ startedAfterFlag = {}
    /\ InitRewriteIdle
    /\ InitStoreIdle
    /\ InitIoIdle
    /\ InitLockIdle
    /\ InitBatchIdle
    /\ InitCacheIdle

SpecResume == InitResume /\ [][Next]_vars

AllowedStatusChanges ==
    {<<STATUS_PENDING, STATUS_SUCCESS>>, <<STATUS_PENDING, STATUS_FAILED>>,
     <<STATUS_PENDING, STATUS_SKIPPED>>, <<STATUS_FAILED, STATUS_PENDING>>}

\* C14: every change of a file's status is pending -> success, pending ->
\* failed, pending -> skipped or failed -> pending, and a job is submitted
\* for a file only while its status is pending.
C14_StatusTransitions ==
    [][\A n \in DOMAIN files :
          /\ (n \in DOMAIN files' /\ files'[n].status # files[n].status)
                => <<files[n].status, files'[n].status>> \in AllowedStatusChanges
          /\ (future'[n] = "queued" /\ future[n] # "queued")
                => files[n].status = STATUS_PENDING]_vars

AllSuccess == \A n \in DOMAIN files : files[n].status = STATUS_SUCCESS

NoJobRan ==
    /\ \A n \in Names : future[n] = "none" /\ jpc[n] = "none"
    /\ \A n \in Names : updates[n] = <<>>

\* C15: process_task in default mode on a task whose files all have status
\* success selects nothing and returns: no job is submitted, the provider is
\* not called, and records, statistics and archives stay as they were.
C15_RerunOnAllSuccess ==
    /\ [][(pc = "idle" /\ AllSuccess /\ ~retry_failed') =>
             /\ pc' \in {"idle", "done"}
             /\ files_to_process' = <<>>
             /\ UNCHANGED <<files, file_keys, statistics, disk>>]_vars
    /\ []((pc = "done" /\ files_to_process = <<>>) => NoJobRan)
    /\ [][pc = "done" => UNCHANGED <<files, file_keys, statistics, disk>>]_vars

\* C15 witness: a run in default mode on an all-success task has returned
C15_Witness ==
    /\ pc = "done"
    /\ ~retry_failed
    /\ AllSuccess
    /\ NoJobRan
    /\ Cardinality(DOMAIN files) > 1

---------------------------------------------------------------------------
(* SpecThree: process_task on a fresh task of three files: A and B with    *)
(* well-formed names, C with a malformed one.                              *)

InitThree ==
    /\ InitTask({A_zip, B_zip, Bad_zip})
    /\ InitRewriteIdle
    /\ InitStoreIdle
    /\ InitIoIdle
    /\ InitLockIdle
    /\ InitBatchIdle
    /\ InitCacheIdle

SpecThree == InitThree /\ [][Next]_vars

\* the record of the file created as filename (its key is the .cbz name
\* once process_file has renamed it)
RecordOf(filename) ==
    IF filename \in DOMAIN files THEN files[filename]
    ELSE files[CbzPath(filename)]

\* the run is over, was not interrupted, and every file's job was collected
RunUncancelled ==
    /\ pc = "done"
    /\ ~shutdown_requested
    /\ \A n \in {A_zip, B_zip, Bad_zip} : future[n] = "done" /\ n \in yielded

\* parser.parse returned metadata for the file / returned None
ProviderReturnedMetadata(filename) ==
    RecordOf(filename).error # "fetching metadata failed"
ProviderReturnedNone(filename) ==
    RecordOf(filename).error = "fetching metadata failed"

ThreeFilesOutcome ==
    /\ statistics.success = 1
    /\ statistics.failed = 1
    /\ statistics.skipped = 1
    /\ statistics.pending = 0
    /\ RecordOf(B_zip).error # ""
    /\ RecordOf(A_zip).error = ""

---------------------------------------------------------------------------
(* SpecCache: one MemoryCacheManager, its capacity set by main() from      *)
(* --cache-size, under any sequence of get_cached_content and              *)
(* cache_content calls.  Both run under the manager's lock.                *)

MaxCacheSize == 2     \* the capacities tried: 0..MaxCacheSize
MaxAccess == 3        \* access counts are followed up to this value

CachePaths == {A_zip, B_zip}
CacheKeys == {CacheKey(p, i) : p \in CachePaths, i \in {METADATA_JSON, COMICINFO_XML}}
CacheContents == {<<"en1">>, <<"zh1">>}

TheCache == CacheState(cache, access_count, cache_order)

InitCache ==
    /\ InitTask({A_zip})
    /\ InitRewriteIdle
    /\ InitStoreIdle
    /\ InitIoIdle
    /\ InitLockIdle
    /\ InitBatchIdle
    /\ cache = <<>>
    /\ access_count = <<>>
    /\ cache_order = <<>>
    /\ max_size \in 0..MaxCacheSize
    /\ translated = NoTranslation
    /\ metadata = <<>>

\* MemoryCacheManager.get_cached_content(file_path, inner_path)
GetCachedContent(file_path, inner_path) ==
    LET key == CacheKey(file_path, inner_path)
        cs == get_cached_content_state(TheCache, key)
    IN  /\ Exists(access_count, key) => access_count[key] < MaxAccess
        /\ cache' = cs.cache
        /\ access_count' = cs.access_count
        /\ cache_order' = cs.order
        /\ UNCHANGED <<schedVars, rwVars, max_size, translated, metadata, tmVars, ioVars, lkVars, bVars>>

\* MemoryCacheManager.cache_content(file_path, inner_path, content)
CacheContent(file_path, inner_path, content) ==
    LET key == CacheKey(file_path, inner_path)
        cs == cache_content(TheCache, key, content, max_size)
    IN  /\ cache' = cs.cache
        /\ access_count' = cs.access_count
        /\ cache_order' = cs.order
        /\ UNCHANGED <<schedVars, rwVars, max_size, translated, metadata, tmVars, ioVars, lkVars, bVars>>

NextCache ==
    \/ \E p \in CachePaths, i \in {METADATA_JSON, COMICINFO_XML} :
          GetCachedContent(p, i)
    \/ \E p \in CachePaths, i \in {METADATA_JSON, COMICINFO_XML},
          content \in CacheContents :
          CacheContent(p, i, content)

SpecCache == InitCache /\ [][NextCache]_vars

\* C17: the number of cached entries never exceeds the configured capacity.
C17_CacheWithinCapacity == Cardinality(DOMAIN cache) <= max_size

\* position of a key in the insertion order
OrderIndex(key) == CHOOSE i \in 1..Len(cache_order) : cache_order[i] = key

\* C18: an entry leaves the cache only when a new key is inserted into a
\* full cache; the entry that leaves has the least access count of the
\* entries cached at that moment, the earliest inserted among equals; an
\* inserted entry starts with count 1.
C18_EvictsLeastUsedOnOverflow ==
    [][/\ \A k \in DOMAIN cache :
             k \notin DOMAIN cache' =>
                /\ \A j \in DOMAIN cache : access_count[k] <= access_count[j]
                /\ \A j \in DOMAIN cache :
                      access_count[j] = access_count[k]
                         => OrderIndex(k) <= OrderIndex(j)
                /\ \E key \in DOMAIN cache' : key \notin DOMAIN cache
                /\ Cardinality(DOMAIN cache) >= max_size
       /\ \A k \in DOMAIN cache' :
             k \notin DOMAIN cache => access_count'[k] = 1]_vars

---------------------------------------------------------------------------
(* Timeouts of the scheduler's wait (under Spec).                          *)

\* C19: a timeout while the scheduler waits does not end the wait: unless
\* the run is interrupted, process_task returns only after it has collected
\* the result of every job it submitted.
C19_TimeoutSparesOtherJobs ==
    (pc = "done" /\ ~shutdown_requested) => yielded = Submitted

---------------------------------------------------------------------------
(* SpecTasks: the TaskManager's store under any sequence of create_task,   *)
(* update_file_status and delete_task calls.                               *)

\* folder paths as callers write them, as sequences of segments:
\* /m/a, /m/a/ (trailing slash), /m/./a and /m/b
TaskPaths ==
    {<<"m", "a">>, <<"m", "a", "">>, <<"m", ".", "a">>, <<"m", "b">>}

\* os.path.abspath on an absolute path: empty and "." segments are dropped
abspath(path) == SelectSeq(path, LAMBDA seg : seg \notin {"", "."})

\* hashlib.md5(folder_path.encode()).hexdigest()[:8]: 32 bits, so two
\* folders can share it; here /m/a and /m/b do
md5_8(folder_path) == IF folder_path = <<"m", "c">> THEN "9f3c" ELSE "41ab"

\* the archives glob('*.zip') + glob('*.cbz') finds in the folder
FolderFiles(folder_path) ==
    IF folder_path = <<"m", "a">> THEN {A_zip} ELSE {}

\* task ids: the hash, or f"{original_task_id}_{counter}"; counter 0 stands
\* for the bare hash
TaskId(hash, counter) == <<hash, counter>>

\* "for task_id, task_data in self.tasks.items(): if folder_path matches"
FindTask_NoScan(ts, folder_path) == {}
FindTask(ts, folder_path) ==
    {id \in DOMAIN ts : ts[id].folder_path = folder_path}

\* "while task_id in self.tasks: task_id = f'{original_task_id}_{counter}'"
FreshTaskId_NoSuffix(ts, hash) == TaskId(hash, 0)
FreshTaskId(ts, hash) ==
    LET free == {c \in 0..Cardinality(DOMAIN ts) : TaskId(hash, c) \notin DOMAIN ts}
    IN  TaskId(hash, CHOOSE c \in free : \A d \in free : c <= d)

\* the task data create_task builds
NewTask(folder_path) ==
    [folder_path |-> folder_path,
     files |-> create_task_files(FolderFiles(folder_path)),
     file_keys |-> SortedSeq(FolderFiles(folder_path)),
     statistics |-> create_task_statistics(FolderFiles(folder_path))]

\* json.dump(task_data, f): the document written.  A dict is written as
\* the list of its items in insertion order.
json_dump(task) ==
    [valid |-> TRUE,
     body |-> <<task.folder_path,
                [i \in 1..Len(task.file_keys) |->
                    <<task.file_keys[i], task.files[task.file_keys[i]]>>],
                task.statistics>>]

\* a file that open(task_file, 'w') emptied and json.dump did not finish
Truncated == [valid |-> FALSE, body |-> <<>>]

\* json.load(f): the task data read back from a document
json_load(doc) ==
    LET items == doc.body[2] IN
    [folder_path |-> doc.body[1],
     files |-> [n \in {items[i][1] : i \in 1..Len(items)} |->
                  items[CHOOSE i \in 1..Len(items) : items[i][1] = n][2]],
     file_keys |-> [i \in 1..Len(items) |-> items[i][1]],
     statistics |-> doc.body[3]]

\* what can happen to the write in _save_task
SaveOutcomes == {"ok", "open_fails", "write_fails"}

\* TaskManager._save_task: tasks_dir after the call
_save_task_Skip(ps, task_id, task, io) == ps
_save_task(ps, task_id, task, io) ==
    CASE io = "ok" -> Put(ps, task_id, json_dump(task))
      [] io = "write_fails" -> Put(ps, task_id, Truncated)
      [] OTHER -> ps

\* TaskManager._save_task: "except Exception" logs; nothing leaves the call
_save_task_raises_NoExcept(io) == io # "ok"
_save_task_raises(io) == FALSE

\* TaskManager._load_tasks: a file that does not parse is logged and left out
_load_tasks(ps) ==
    [id \in {i \in DOMAIN ps : ps[i].valid} |-> json_load(ps[id])]

\* TaskManager.delete_task: self.tasks after "del self.tasks[task_id]"
delete_task_All(ts, task_id) == <<>>
delete_task(ts, task_id) == Remove(ts, task_id)

InitTasks ==
    /\ InitTask({A_zip, B_zip})
    /\ InitRewriteIdle
    /\ InitStoreIdle
    /\ InitIoIdle
    /\ InitLockIdle
    /\ InitBatchIdle
    /\ InitCacheIdle

\* TaskManager.create_task(folder_path)
CreateTask(path) ==
    /\ UNCHANGED <<schedVars, rwVars, trVars, ioVars, lkVars, bVars>>
    /\ LET folder_path == abspath(path)
           existing == FindTask(tasks, folder_path)
       IN
        IF existing # {}
        THEN /\ last_op' = [op |-> "create", path |-> path,
                            task_id |-> CHOOSE id \in existing : TRUE,
                            existed |-> TRUE, ok |-> TRUE, raised |-> FALSE,
                            saved |-> <<>>]
             /\ tasks' = tasks
             /\ persisted' = persisted
        ELSE LET task_id == FreshTaskId(tasks, md5_8(folder_path)) IN
             \E io \in SaveOutcomes :
             /\ tasks' = Put(tasks, task_id, NewTask(folder_path))
             /\ persisted' = _save_task(persisted, task_id,
                                        NewTask(folder_path), io)
             /\ last_op' = [op |-> "create", path |-> path,
                            task_id |-> task_id, existed |-> FALSE,
                            ok |-> TRUE, raised |-> _save_task_raises(io),
                            saved |-> <<io>>]

\* TaskManager.update_file_status(task_id, filename, status, error_msg)
UpdateFileStatus(task_id, filename, status) ==
    /\ task_id \in DOMAIN tasks
    /\ filename \in DOMAIN tasks[task_id].files
    /\ \E io \in SaveOutcomes :
       LET t == tasks[task_id]
           error_msg == IF status = STATUS_SUCCESS THEN "" ELSE "error"
           updated == [t EXCEPT
               !.files = update_file_status_files(t.files, filename, status,
                                                  error_msg),
               !.file_keys = KeysWith(t.file_keys, filename),
               !.statistics = update_file_status_stats(t.files, t.statistics,
                                                       filename, status)]
       IN  /\ tasks' = [tasks EXCEPT ![task_id] = updated]
           /\ persisted' = _save_task(persisted, task_id, updated, io)
           /\ last_op' = [op |-> "update", path |-> <<filename, status>>,
                          task_id |-> task_id, existed |-> TRUE, ok |-> TRUE,
                          raised |-> _save_task_raises(io), saved |-> <<io>>]
    /\ UNCHANGED <<schedVars, rwVars, trVars, ioVars, lkVars, bVars>>

\* TaskManager._update_translation_statistics: the counters are made at the
\* first call, with translation_pending = len(task_data['files'])
_update_translation_statistics(stats, nfiles, old_status, new_status) ==
    LET s0 == IF "translation_success" \in DOMAIN stats THEN stats
              ELSE stats @@ [translation_success |-> 0,
                             translation_failed |-> 0,
                             translation_pending |-> nfiles]
        s1 == CASE old_status = "pending" ->
                       [s0 EXCEPT !.translation_pending = @ - 1]
                [] old_status = "success" ->
                       [s0 EXCEPT !.translation_success = @ - 1]
                [] old_status = "failed" ->
                       [s0 EXCEPT !.translation_failed = @ - 1]
                [] OTHER -> s0
    IN  CASE new_status = "success" -> [s1 EXCEPT !.translation_success = @ + 1]
          [] new_status = "failed"  -> [s1 EXCEPT !.translation_failed = @ + 1]
          [] new_status = "pending" -> [s1 EXCEPT !.translation_pending = @ + 1]
          [] OTHER -> s1

\* TaskManager.update_file_translation_status: the statistics after the call;
\* the record of an unknown filename is made first, and
\* file_info.get('translation_status', 'pending') is the old status
update_file_translation_status_stats(fmap, stats, filename, translation_status) ==
    LET old_status == IF filename \in DOMAIN fmap
                         /\ fmap[filename].translation_status # "unset"
                      THEN fmap[filename].translation_status
                      ELSE "pending"
    IN  _update_translation_statistics(
            stats, Cardinality(DOMAIN fmap \cup {filename}),
            old_status, translation_status)

\* a filename the task has no record of
UnknownName == A_cbz

\* TaskManager.update_file_translation_status(task_id, filename, status, ...);
\* it calls _save_task twice
UpdateFileTranslationStatus(task_id, filename, translation_status) ==
    /\ task_id \in DOMAIN tasks
    /\ filename \in DOMAIN tasks[task_id].files \cup {UnknownName}
    /\ \E io1 \in SaveOutcomes, io2 \in SaveOutcomes :
       LET t == tasks[task_id]
           updated == [t EXCEPT
               !.files = update_file_translation_status_files(
                             t.files, filename, translation_status),
               !.file_keys = KeysWith(t.file_keys, filename),
               !.statistics = update_file_translation_status_stats(
                                  t.files, t.statistics, filename,
                                  translation_status)]
           first == _save_task(persisted, task_id, updated, io1)
       IN  /\ tasks' = [tasks EXCEPT ![task_id] = updated]
           /\ persisted' = IF _save_task_raises(io1) THEN first
                           ELSE _save_task(first, task_id, updated, io2)
           /\ last_op' = [op |-> "update_translation",
                          path |-> <<filename, translation_status>>,
                          task_id |-> task_id, existed |-> TRUE, ok |-> TRUE,
                          raised |-> _save_task_raises(io1)
                                     \/ _save_task_raises(io2),
                          saved |-> IF _save_task_raises(io1) THEN <<io1>>
                                    ELSE <<io1, io2>>]
    /\ UNCHANGED <<schedVars, rwVars, trVars, ioVars, lkVars, bVars>>

\* translate_metadata_in_cbz: update_file_translation_status for a file the
\* task has a record of
TranslationRecorded(task_id, filename, translation_status) ==
    /\ task_id \in DOMAIN tasks
    /\ filename \in DOMAIN tasks[task_id].files
    /\ UpdateFileTranslationStatus(task_id, filename, translation_status)

\* process_file's last locked section for a converted file:
\* update_file_status(SUCCESS), then files.pop(filename),
\* files[new_filename] = file_info and _save_task
RenameRecord(task_id, filename) ==
    /\ task_id \in DOMAIN tasks
    /\ filename \in DOMAIN tasks[task_id].files
    /\ EndsWithZip(filename)
    /\ \E io1 \in SaveOutcomes, io2 \in SaveOutcomes :
       LET t == tasks[task_id]
           updated == [t EXCEPT
               !.files = update_file_status_files(t.files, filename,
                                                  STATUS_SUCCESS, ""),
               !.file_keys = KeysWith(t.file_keys, filename),
               !.statistics = update_file_status_stats(
                                  t.files, t.statistics, filename,
                                  STATUS_SUCCESS)]
           renamed == [updated EXCEPT
               !.files = RenameKey(updated.files, filename, CbzPath(filename)),
               !.file_keys = RenameKeyOrder(updated.file_keys, filename,
                                            CbzPath(filename))]
           first == _save_task(persisted, task_id, updated, io1)
       IN  /\ tasks' = [tasks EXCEPT ![task_id] =
                           IF _save_task_raises(io1) THEN updated ELSE renamed]
           /\ persisted' = IF _save_task_raises(io1) THEN first
                           ELSE _save_task(first, task_id, renamed, io2)
           /\ last_op' = [op |-> "rename", path |-> <<filename>>,
                          task_id |-> task_id, existed |-> TRUE, ok |-> TRUE,
                          raised |-> _save_task_raises(io1)
                                     \/ _save_task_raises(io2),
                          saved |-> IF _save_task_raises(io1) THEN <<io1>>
                                    ELSE <<io1, io2>>]
    /\ UNCHANGED <<schedVars, rwVars, trVars, ioVars, lkVars, bVars>>

\* TaskManager.delete_task(task_id): False for an unknown id; os.remove of
\* the task's file may raise, which "except Exception" turns into False
DeleteTask(task_id) ==
    /\ \E remove_ok \in BOOLEAN :
       IF task_id \notin DOMAIN tasks
       THEN /\ UNCHANGED <<tasks, persisted>>
            /\ last_op' = [op |-> "delete", path |-> <<>>,
                           task_id |-> task_id, existed |-> FALSE,
                           ok |-> FALSE, raised |-> FALSE, saved |-> <<>>]
       ELSE IF Exists(persisted, task_id) /\ ~remove_ok
       THEN /\ UNCHANGED <<tasks, persisted>>
            /\ last_op' = [op |-> "delete", path |-> <<>>,
                           task_id |-> task_id, existed |-> TRUE,
                           ok |-> FALSE, raised |-> FALSE, saved |-> <<>>]
       ELSE /\ tasks' = delete_task(tasks, task_id)
            /\ persisted' = IF Exists(persisted, task_id)
                            THEN Remove(persisted, task_id) ELSE persisted
            /\ last_op' = [op |-> "delete", path |-> <<>>,
                           task_id |-> task_id, existed |-> TRUE,
                           ok |-> TRUE, raised |-> FALSE, saved |-> <<>>]
    /\ UNCHANGED <<schedVars, rwVars, trVars, ioVars, lkVars, bVars>>

\* the process ends and a new one starts: TaskManager.__init__ -> _load_tasks
Restart ==
    /\ tasks' = _load_tasks(persisted)
    /\ last_op' = [op |-> "restart", path |-> <<>>, task_id |-> <<>>,
                   existed |-> FALSE, ok |-> TRUE, raised |-> FALSE,
                   saved |-> <<>>]
    /\ UNCHANGED <<persisted, schedVars, rwVars, trVars, ioVars, lkVars, bVars>>

\* the ids create_task can give to the folders of TaskPaths
TaskIds == {TaskId(hash, counter) : hash \in {"41ab", "9f3c"}, counter \in 0..1}

NextTasks ==
    \/ \E path \in TaskPaths : CreateTask(path)
    \/ \E task_id \in TaskIds, filename \in Names,
          status \in {STATUS_SUCCESS, STATUS_FAILED} :
          UpdateFileStatus(task_id, filename, status)
    \/ \E task_id \in TaskIds, filename \in Names,
          translation_status \in {"success"} :
          TranslationRecorded(task_id, filename, translation_status)
    \/ \E task_id \in TaskIds, filename \in Names :
          RenameRecord(task_id, filename)
    \/ \E task_id \in TaskIds : DeleteTask(task_id)
    \/ Restart

SpecTasks == InitTasks /\ [][NextTasks]_vars

\* SpecCounters: one task, and the calls that write its translation
\* counters and its records, with any filename and any translation status
NextCounters ==
    \/ CreateTask(<<"m", "a">>)
    \/ \E task_id \in TaskIds, filename \in Names,
          translation_status \in {"success", "failed", "pending"} :
          UpdateFileTranslationStatus(task_id, filename, translation_status)
    \/ \E task_id \in TaskIds, filename \in Names :
          RenameRecord(task_id, filename)
    \/ Restart

SpecCounters == InitTasks /\ [][NextCounters]_vars

\* C20: create_task for a folder that already has a task returns that
\* task's id and changes nothing in the store (no second task, records and
\* statistics as they were); no two tasks are ever for the same folder.
C20_CreateTaskIdempotent ==
    /\ [][last_op'.op = "create" =>
             LET had == {id \in DOMAIN tasks :
                            tasks[id].folder_path = abspath(last_op'.path)}
             IN  had # {} => /\ tasks' = tasks
                             /\ last_op'.task_id \in had
                             /\ last_op'.existed]_vars
    /\ [](\A i, j \in DOMAIN tasks :
             tasks[i].folder_path = tasks[j].folder_path => i = j)

\* C20 witness: create_task was called with /m/a/ while the task of /m/a
\* had a finished file, beside a second task whose id has a counter
C20_Witness ==
    /\ last_op.op = "create"
    /\ last_op.existed
    /\ last_op.path = <<"m", "a", "">>
    /\ A_zip \in DOMAIN tasks[last_op.task_id].files
    /\ tasks[last_op.task_id].files[A_zip].status = STATUS_SUCCESS
    /\ tasks[last_op.task_id].statistics.success = 1
    /\ TaskId("41ab", 1) \in DOMAIN tasks

\* C21: a delete_task step leaves every archive on disk as it was and every
\* other task, in memory and in tasks_dir, as it was; when it reports
\* success the task's record and file are gone; for an id that is not a
\* task it changes nothing and returns False.
C21_DeleteTouchesOnlyItsTask ==
    [][last_op'.op = "delete" =>
        /\ disk' = disk
        /\ DOMAIN tasks' \subseteq DOMAIN tasks
        /\ DOMAIN persisted' \subseteq DOMAIN persisted
        /\ \A id \in DOMAIN tasks \ {last_op'.task_id} :
              id \in DOMAIN tasks' /\ tasks'[id] = tasks[id]
        /\ \A id \in DOMAIN persisted \ {last_op'.task_id} :
              id \in DOMAIN persisted' /\ persisted'[id] = persisted[id]
        /\ last_op'.ok =>
              /\ last_op'.task_id \in DOMAIN tasks
              /\ last_op'.task_id \notin DOMAIN tasks'
              /\ last_op'.task_id \notin DOMAIN persisted'
        /\ last_op'.task_id \notin DOMAIN tasks =>
              /\ ~last_op'.ok
              /\ tasks' = tasks
              /\ persisted' = persisted]_vars

\* C21 witness: a task was deleted with success while another task, with a
\* processed file and a saved document, stays
C21_Witness ==
    /\ last_op.op = "delete"
    /\ last_op.ok
    /\ last_op.task_id = TaskId("41ab", 1)
    /\ TaskId("41ab", 0) \in DOMAIN tasks
    /\ tasks[TaskId("41ab", 0)].statistics.success = 1
    /\ TaskId("41ab", 0) \in DOMAIN persisted
    /\ persisted[TaskId("41ab", 0)].valid

\* the number of records of a files map that have the status
CountStatus(fmap, status) ==
    Cardinality({n \in DOMAIN fmap : fmap[n].status = status})

\* the statistics agree with the records
StatisticsReflect(task) ==
    /\ task.statistics.total = Cardinality(DOMAIN task.files)
    /\ \A st \in Statuses : task.statistics[st] = CountStatus(task.files, st)

\* some _save_task of the call made last failed
PersistFailed == \E i \in 1..Len(last_op.saved) : last_op.saved[i] # "ok"

\* C22: when a _save_task fails inside update_file_status,
\* update_file_translation_status or the renaming section that follows a
\* status update, nothing is raised, the record in memory has the new
\* status, the statistics count the records as they now are, and the
\* caller's next statement (the key rename) is carried out.
C22_PersistFailureIsSwallowed ==
    [][(/\ last_op'.op \in {"update", "update_translation", "rename"}
        /\ PersistFailed') =>
        LET id == last_op'.task_id
            filename == last_op'.path[1]
        IN  /\ ~last_op'.raised
            /\ id \in DOMAIN tasks'
            /\ StatisticsReflect(tasks'[id])
            /\ last_op'.op = "update" =>
                  tasks'[id].files[filename].status = last_op'.path[2]
            /\ last_op'.op = "update_translation" =>
                  tasks'[id].files[filename].translation_status
                      = last_op'.path[2]
            /\ last_op'.op = "rename" =>
                  /\ filename \notin DOMAIN tasks'[id].files
                  /\ CbzPath(filename) \in DOMAIN tasks'[id].files
                  /\ tasks'[id].files[CbzPath(filename)].status
                         = STATUS_SUCCESS]_vars

\* C22 witness: a status update to success whose save failed, leaving an
\* older document in tasks_dir
C22_Witness ==
    /\ last_op.op = "update"
    /\ PersistFailed
    /\ last_op.path = <<A_zip, STATUS_SUCCESS>>
    /\ tasks[last_op.task_id].statistics.success = 1
    /\ last_op.task_id \in DOMAIN persisted
    /\ persisted[last_op.task_id].valid
    /\ persisted[last_op.task_id] # json_dump(tasks[last_op.task_id])

\* the call made last wrote the task's document, and its last write went
\* through
PersistSucceeded ==
    /\ last_op.saved # <<>>
    /\ last_op.saved[Len(last_op.saved)] = "ok"

\* the names get_pending_files would hand to the workers
SelectedForProcessing(task) ==
    SeqRange(get_pending_files(task.files, task.file_keys))

\* C24: after create_task, update_file_status,
\* update_file_translation_status or the key rename, when the last
\* _save_task of the call succeeded, the document in tasks_dir reads back
\* as the task in memory; and a restart from a tasks_dir that agrees with
\* memory loads the same task, in which no file with status success is
\* pending.
C24_PersistedEqualsMemory ==
    [][/\ (PersistSucceeded' /\ last_op'.op # "restart") =>
            /\ last_op'.task_id \in DOMAIN persisted'
            /\ persisted'[last_op'.task_id].valid
            /\ json_load(persisted'[last_op'.task_id])
                   = tasks'[last_op'.task_id]
       /\ last_op'.op = "restart" =>
            \A id \in DOMAIN tasks \cap DOMAIN persisted :
                (persisted[id].valid /\ json_load(persisted[id]) = tasks[id])
                => /\ id \in DOMAIN tasks'
                   /\ tasks'[id] = tasks[id]
                   /\ \A n \in DOMAIN tasks[id].files :
                         tasks[id].files[n].status = STATUS_SUCCESS
                         => /\ tasks'[id].files[n].status = STATUS_SUCCESS
                            /\ n \notin SelectedForProcessing(tasks'[id])]_vars

\* C24 witness: the process restarted and loaded a task whose converted
\* file is recorded as success under its new name, with nothing pending
C24_Witness ==
    /\ last_op.op = "restart"
    /\ TaskId("41ab", 0) \in DOMAIN tasks
    /\ A_cbz \in DOMAIN tasks[TaskId("41ab", 0)].files
    /\ tasks[TaskId("41ab", 0)].files[A_cbz].status = STATUS_SUCCESS
    /\ tasks[TaskId("41ab", 0)].files[A_cbz].translation_status = "success"
    /\ SelectedForProcessing(tasks[TaskId("41ab", 0)]) = {}
    /\ json_load(persisted[TaskId("41ab", 0)]) = tasks[TaskId("41ab", 0)]

---------------------------------------------------------------------------
(* The archive's structure and its rewrites (under SpecRewrite).           *)

\* the classification as the specification words it: unknown without
\* entries; nested when the entries have one first path segment and some
\* entry name is that segment followed by '/', the bare directory entry
\* included; flat otherwise
StatedStructure(archive) ==
    LET file_list == namelist(archive)
        segments == {FirstSegment(file_list[i]) : i \in 1..Len(file_list)}
    IN  IF file_list = <<>> THEN [type |-> "unknown", folder |-> <<>>]
        ELSE IF /\ Cardinality(segments) = 1
                /\ \E i \in 1..Len(file_list) :
                      StartsWith(file_list[i],
                                 (CHOOSE r \in segments : TRUE) \o <<"/">>)
        THEN [type |-> "nested", folder |-> CHOOSE r \in segments : TRUE]
        ELSE [type |-> "flat", folder |-> <<>>]

\* analyze_zip_structure has just returned to process_zip_file
StructureAnalyzed == rpc \in {"conv_open", "inj_open"} /\ conv_result = "none"

\* C25: when analyze_zip_structure has returned, process_zip_file converts
\* the archive exactly when the stated classification is nested, and the
\* result of the analysis is the stated classification.
C25_ClassifiesAsStated ==
    StructureAnalyzed =>
        /\ (rpc = "conv_open") <=>
              (StatedStructure(pre_call.entries).type = "nested")
        /\ analyze_zip_structure(fs[ZIP_PATH].entries)
              = StatedStructure(pre_call.entries)

\* the entries of an archive that are files, in the archive's order
FileEntries(archive) == SelectSeq(archive, LAMBDA e : ~EndsWithSlash(e.name))

\* convert_nested_to_flat has returned True
Converted == conv_result = "True" /\ rpc = "inj_open"

\* the file entries of the input, each under its name without "folder/"
StrippedFileEntries ==
    LET folder == analyze_zip_structure(pre_call.entries).folder
        wrapped == FileEntries(pre_call.entries)
    IN  [i \in 1..Len(wrapped) |->
            Entry(SubSeq(wrapped[i].name, Len(folder) + 2,
                         Len(wrapped[i].name)),
                  wrapped[i].data)]

Injected == rpc = "translate" /\ pzf_result.success = "True"

\* how many entries of the archive have the name
CountEntries(archive, name) ==
    Cardinality({i \in 1..Len(archive) : archive[i].name = name})

\* the entries that are neither metadata.json nor ComicInfo.xml
Payload(archive) ==
    SelectSeq(archive, LAMBDA e : e.name # METADATA_JSON
                                  /\ e.name # COMICINFO_XML)

\* C27: when process_zip_file has succeeded, the archive holds the entries
\* of the archive the injection read (the input after normalization) other
\* than metadata.json and ComicInfo.xml with their names and bytes, one
\* metadata.json holding the fetched metadata, at most one ComicInfo.xml,
\* and nothing else.
C27_InjectionKeepsPayload ==
    Injected =>
        LET out == fs[TranslatePath].entries IN
        /\ Payload(out) = Payload(pre.entries)
        /\ CountEntries(out, METADATA_JSON) = 1
        /\ ReadEntry(out, METADATA_JSON) = metadata
        /\ CountEntries(out, COMICINFO_XML) <= 1
        /\ Len(out) = Len(Payload(pre.entries)) + 1
                        + CountEntries(out, COMICINFO_XML)

\* C27 witness: an archive that already had a metadata.json and a picture
\* was injected and got a ComicInfo.xml
C27_Witness ==
    /\ Injected
    /\ HasEntry(pre.entries, METADATA_JSON)
    /\ Len(Payload(pre.entries)) = 1
    /\ ReadEntry(pre.entries, METADATA_JSON) # metadata
    /\ Len(fs[TranslatePath].entries) = 3

---------------------------------------------------------------------------
(* SpecThrottle: one DiskIOController, called at any moments with any      *)
(* byte counts.  The unit of time is the 100 ms slice, so max_speed is in  *)
(* bytes per slice and a sleep of 0.1 s is one unit.                       *)

MaxTime == 24           \* the clock is followed up to this many slices
MaxSpeed == 2           \* the caps tried: 0 (no limit) .. MaxSpeed
MaxBytes == 6           \* the largest bytes_count of one call
MaxWindowBytes == 12    \* bytes_processed is followed up to this value

Second == 10            \* "elapsed_time >= 1.0", in slices
MaxSleep == 1           \* "min(wait_time, 0.1)", in slices

InitThrottle ==
    /\ InitTask({A_zip})
    /\ InitRewriteIdle
    /\ InitStoreIdle
    /\ InitCacheIdle
    /\ InitLockIdle
    /\ InitBatchIdle
    \* DiskIOController.__init__
    /\ max_speed \in 0..MaxSpeed
    /\ clock = 0
    /\ last_check_time = 0
    /\ bytes_processed = 0
    /\ windows = <<>>

\* the windows closed last after one more has closed
CloseWindow(ws, bytes, elapsed) ==
    LET w == [bytes |-> bytes, elapsed |-> elapsed] IN
    IF Len(ws) < 2 THEN Append(ws, w) ELSE <<ws[2], w>>

\* the slices throttle_io sleeps when it closes a window:
\* wait_time = excess_bytes / max_speed, at most 0.1 s; a wait shorter than
\* a slice ends within the current slice or in the next one
SleepSlices(processed, elapsed) ==
    LET excess_bytes == processed - max_speed * elapsed IN
    IF processed <= max_speed * elapsed THEN {0}
    ELSE IF excess_bytes >= max_speed * MaxSleep THEN {MaxSleep}
    ELSE {0, MaxSleep}

\* DiskIOController.throttle_io(bytes_count)
ThrottleIo(bytes_count) ==
    /\ bytes_processed + bytes_count <= MaxWindowBytes
    /\ IF max_speed <= 0
       THEN UNCHANGED ioVars
       ELSE LET processed == bytes_processed + bytes_count
                elapsed_time == clock - last_check_time
            IN  IF elapsed_time >= Second
                THEN /\ \E sleep \in SleepSlices(processed, elapsed_time) :
                           clock' = clock + sleep
                     /\ bytes_processed' = 0
                     /\ last_check_time' = clock
                     /\ windows' = CloseWindow(windows, processed,
                                               elapsed_time)
                     /\ UNCHANGED max_speed
                ELSE /\ bytes_processed' = processed
                     /\ UNCHANGED <<max_speed, clock, last_check_time,
                                    windows>>
    /\ UNCHANGED <<schedVars, rwVars, trVars, tmVars, lkVars, bVars>>

\* time passes between two calls
TimePasses ==
    /\ clock < MaxTime
    /\ clock' = clock + 1
    /\ UNCHANGED <<max_speed, last_check_time, bytes_processed, windows>>
    /\ UNCHANGED <<schedVars, rwVars, trVars, tmVars, lkVars, bVars>>

NextThrottle ==
    \/ \E bytes_count \in {1, MaxBytes} : ThrottleIo(bytes_count)
    \/ TimePasses

SpecThrottle == InitThrottle /\ [][NextThrottle]_vars

\* C28: with a positive cap, the bytes admitted in the two measurement
\* windows closed last are at most what the cap allows for their length,
\* plus what one 100 ms slice carries at the cap.
C28_ThrottleBound ==
    (max_speed > 0 /\ Len(windows) = 2) =>
        windows[1].bytes + windows[2].bytes
            <= max_speed * (windows[1].elapsed + windows[2].elapsed)
               + max_speed * MaxSleep

---------------------------------------------------------------------------
(* SpecLock: the process_file jobs of one task as threads.  Every          *)
(* statement that reads or writes task_data is a step of its own, and      *)
(* "with self._lock" is an acquire step and a release step.                *)

\* the scheduler's variables that the jobs' record updates do not touch
runVars == <<disk, to_cbz, dry_run, retry_failed, num_threads,
             shutdown_requested, pc, files_to_process, idx, yielded, future,
             jpc, jloc, updates, atFlag, startedAfterFlag>>

\* threading.Lock.acquire returns only while nobody holds the lock
LockFree_Always(owner) == TRUE
LockFree(owner) == owner = NoOwner

\* a job that has not run yet; status and old_status are the arguments and
\* the local of the update_file_status call the job is in
NewJob ==
    [at |-> "start", status |-> "", old_status |-> "", rename |-> FALSE]

InitLock ==
    /\ \E S \in SUBSET FolderNames :
          /\ S # {}
          /\ Cardinality(S) <= MaxFiles
          /\ InitTask(S)
          /\ wpc = [n \in S |-> NewJob]
    /\ lock_owner = NoOwner
    /\ InitBatchIdle
    /\ InitRewriteIdle
    /\ InitStoreIdle
    /\ InitIoIdle
    /\ InitCacheIdle

\* the positions at which a job stands before "with self._lock:", and the
\* position it has once it holds the lock
Entered(at) ==
    CASE at = "skip_wait"   -> "skip_record"
      [] at = "log_wait"    -> "log_held"
      [] at = "failed_wait" -> "failed_record"
      [] at = "tr_wait"     -> "tr_record"
      [] at = "final_wait"  -> "final_record"
      [] OTHER -> at

\* the positions at the end of a with block, and the position after it
Left(at) ==
    CASE at = "skip_release"   -> "done"
      [] at = "log_held"       -> "parse"
      [] at = "failed_release" -> "done"
      [] at = "tr_release"     -> "final_wait"
      [] at = "final_release"  -> "done"
      [] OTHER -> at

\* process_file: manga_id = self.extract_id(filename)
ExtractId(n) ==
    /\ n \in DOMAIN wpc
    /\ wpc[n].at = "start"
    /\ wpc' = [wpc EXCEPT ![n].at = IF extract_id(n) = NoId THEN "skip_wait"
                                     ELSE "log_wait",
                            ![n].status = IF extract_id(n) = NoId
                                          THEN STATUS_SKIPPED ELSE ""]
    /\ UNCHANGED <<files, file_keys, statistics, runVars, lock_owner>>
    /\ UNCHANGED <<rwVars, trVars, tmVars, ioVars, bVars>>

\* "with self._lock:" is entered
Acquire(n) ==
    /\ n \in DOMAIN wpc
    /\ Entered(wpc[n].at) # wpc[n].at
    /\ LockFree(lock_owner)
    /\ lock_owner' = n
    /\ wpc' = [wpc EXCEPT ![n].at = Entered(@)]
    /\ UNCHANGED <<files, file_keys, statistics, runVars>>
    /\ UNCHANGED <<rwVars, trVars, tmVars, ioVars, bVars>>

\* the with block is left
Release(n) ==
    /\ n \in DOMAIN wpc
    /\ Left(wpc[n].at) # wpc[n].at
    /\ lock_owner' = NoOwner
    /\ wpc' = [wpc EXCEPT ![n].at = Left(@)]
    /\ UNCHANGED <<files, file_keys, statistics, runVars>>
    /\ UNCHANGED <<rwVars, trVars, tmVars, ioVars, bVars>>

\* process_file: metadata = self.parser.parse(manga_id), outside the lock
Parse(n) ==
    /\ n \in DOMAIN wpc
    /\ wpc[n].at = "parse"
    /\ \E found \in BOOLEAN :
          wpc' = [wpc EXCEPT ![n].at = IF found THEN "rewrite"
                                       ELSE "failed_wait",
                             ![n].status = IF found THEN "" ELSE STATUS_FAILED]
    /\ UNCHANGED <<files, file_keys, statistics, runVars, lock_owner>>
    /\ UNCHANGED <<rwVars, trVars, tmVars, ioVars, bVars>>

\* process_file: process_zip_file and the reading part of
\* translate_metadata_in_cbz, outside the lock
RewriteArchive(n) ==
    /\ n \in DOMAIN wpc
    /\ wpc[n].at = "rewrite"
    /\ \E success \in BOOLEAN, new_path \in BOOLEAN :
          wpc' = [wpc EXCEPT
                    ![n].at = IF success THEN "tr_wait" ELSE "final_wait",
                    ![n].status = IF success THEN "" ELSE STATUS_FAILED,
                    ![n].rename = success /\ new_path /\ EndsWithZip(n)]
    /\ UNCHANGED <<files, file_keys, statistics, runVars, lock_owner>>
    /\ UNCHANGED <<rwVars, trVars, tmVars, ioVars, bVars>>

\* update_file_translation_status: the record is written
WriteTranslationStatus(n) ==
    /\ n \in DOMAIN wpc
    /\ wpc[n].at = "tr_record"
    /\ \E translation_status \in {"success", "failed"} :
          /\ files' = update_file_translation_status_files(
                          files, n, translation_status)
          /\ wpc' = [wpc EXCEPT
                       ![n].at = "tr_release",
                       ![n].status = IF translation_status = "success"
                                     THEN STATUS_SUCCESS ELSE STATUS_FAILED]
    /\ file_keys' = KeysWith(file_keys, n)
    /\ UNCHANGED <<statistics, runVars, lock_owner>>
    /\ UNCHANGED <<rwVars, trVars, tmVars, ioVars, bVars>>

\* update_file_status: old_status is read and the record is written
WriteRecord(n) ==
    /\ n \in DOMAIN wpc
    /\ wpc[n].at \in {"skip_record", "failed_record", "final_record"}
    /\ files' = update_file_status_files(files, n, wpc[n].status, "")
    /\ file_keys' = KeysWith(file_keys, n)
    /\ wpc' = [wpc EXCEPT
                 ![n].old_status = IF n \in DOMAIN files THEN files[n].status
                                   ELSE STATUS_PENDING,
                 ![n].at = CASE @ = "skip_record"   -> "skip_stats"
                             [] @ = "failed_record" -> "failed_stats"
                             [] OTHER               -> "final_stats"]
    /\ UNCHANGED <<statistics, runVars, lock_owner>>
    /\ UNCHANGED <<rwVars, trVars, tmVars, ioVars, bVars>>

\* update_file_status: _update_statistics and _save_task
WriteStatistics(n) ==
    /\ n \in DOMAIN wpc
    /\ wpc[n].at \in {"skip_stats", "failed_stats", "final_stats"}
    /\ statistics' = _update_statistics(statistics, wpc[n].old_status,
                                        wpc[n].status)
    /\ wpc' = [wpc EXCEPT
                 ![n].at = CASE @ = "skip_stats"   -> "skip_release"
                             [] @ = "failed_stats" -> "failed_release"
                             [] wpc[n].rename /\ wpc[n].status = STATUS_SUCCESS
                                                   -> "final_read"
                             [] OTHER              -> "final_release"]
    /\ UNCHANGED <<files, file_keys, runVars, lock_owner>>
    /\ UNCHANGED <<rwVars, trVars, tmVars, ioVars, bVars>>

\* process_file: task_data = get_task(task_id); if filename in files
ReadFiles(n) ==
    /\ n \in DOMAIN wpc
    /\ wpc[n].at = "final_read"
    /\ wpc' = [wpc EXCEPT ![n].at = IF n \in DOMAIN files THEN "final_pop"
                                     ELSE "final_release"]
    /\ UNCHANGED <<files, file_keys, statistics, runVars, lock_owner>>
    /\ UNCHANGED <<rwVars, trVars, tmVars, ioVars, bVars>>

\* process_file: files.pop(filename), files[new_filename] = file_info and
\* _save_task
RenameRecordKey(n) ==
    /\ n \in DOMAIN wpc
    /\ wpc[n].at = "final_pop"
    /\ files' = RenameKey(files, n, CbzPath(n))
    /\ file_keys' = RenameKeyOrder(file_keys, n, CbzPath(n))
    /\ wpc' = [wpc EXCEPT ![n].at = "final_release"]
    /\ UNCHANGED <<statistics, runVars, lock_owner>>
    /\ UNCHANGED <<rwVars, trVars, tmVars, ioVars, bVars>>

NextLock ==
    \/ \E n \in Names : ExtractId(n)
    \/ \E n \in Names : Acquire(n)
    \/ \E n \in Names : Release(n)
    \/ \E n \in Names : Parse(n)
    \/ \E n \in Names : RewriteArchive(n)
    \/ \E n \in Names : WriteTranslationStatus(n)
    \/ \E n \in Names : WriteRecord(n)
    \/ \E n \in Names : WriteStatistics(n)
    \/ \E n \in Names : ReadFiles(n)
    \/ \E n \in Names : RenameRecordKey(n)

SpecLock == InitLock /\ [][NextLock]_vars

\* the job is inside update_file_status, update_file_translation_status or
\* the key rename: it has begun and not finished
Mutating(n) ==
    wpc[n].at \in {"skip_record", "skip_stats", "failed_record",
                   "failed_stats", "tr_record", "final_record", "final_stats",
                   "final_pop"}

\* the job is at a statement that reads task_data['files']
ReadingFiles(n) ==
    wpc[n].at \in {"skip_record", "failed_record", "tr_record",
                   "final_record", "final_read", "final_pop"}

\* C23: no two jobs are inside a mutation of the task at the same time, and
\* no job is at a read of the files map while another is inside a mutation.
C23_MutationsExclusive ==
    \A n \in DOMAIN wpc, m \in DOMAIN wpc :
        (n # m /\ Mutating(n)) => (~Mutating(m) /\ ~ReadingFiles(m))

\* C23 witness: one job is inside the key rename while another waits at its
\* "with self._lock:" for a status update
C23_Witness ==
    \E n \in DOMAIN wpc, m \in DOMAIN wpc :
        /\ n # m
        /\ wpc[n].at = "final_pop"
        /\ lock_owner = n
        /\ wpc[m].at \in {"skip_wait", "failed_wait", "tr_wait", "final_wait"}

---------------------------------------------------------------------------
(* The two early returns of process_file (under Spec).                     *)

\* the filename matches [<6 digits>]<name>.<zip|cbz>
MatchesPattern(n) == Len(Parts(n).id) = IdDigits /\ Parts(n).stem # ""

\* job n makes an update_file_status call in this step
JobUpdates(n) == Len(updates'[n]) > Len(updates[n])

\* every job but n, and every record but n's, is left as it is
OthersUntouched(n) ==
    \A m \in Names \ {n} :
        /\ jpc'[m] = jpc[m]
        /\ future'[m] = future[m]
        /\ jloc'[m] = jloc[m]
        /\ updates'[m] = updates[m]
        /\ m \in DOMAIN files => (m \in DOMAIN files' /\ files'[m] = files[m])

\* C29: when the provider returns nothing for a file whose name matches the
\* pattern, the job's step records failed with an error text and ends the
\* job; the folder's archives and the file's translation_status stay as
\* they were, and no other job or record changes.
C29_NoMetadataFailsOnly ==
    [][\A n \in Names :
          (jpc[n] = "start" /\ MatchesPattern(n) /\ JobUpdates(n)) =>
              /\ files'[n].status = STATUS_FAILED
              /\ files'[n].error # ""
              /\ files'[n].translation_status = files[n].translation_status
              /\ disk' = disk
              /\ fs' = fs
              /\ jpc'[n] = "end"
              /\ future'[n] = "done"
              /\ OthersUntouched(n)
              /\ shutdown_requested' = shutdown_requested
              /\ pc' = pc]_vars

\* C29 witness: one job ended on missing metadata, its archive as it was,
\* and another job of the same run ended with success
C29_Witness ==
    \E n \in DOMAIN files, m \in DOMAIN files :
        /\ n # m
        /\ n \in DOMAIN disk
        /\ jpc[n] = "end"
        /\ updates[n] = <<[by |-> n, status |-> STATUS_FAILED]>>
        /\ files[n].status = STATUS_FAILED
        /\ disk[n] = Archive(n, "none")
        /\ files[m].status = STATUS_SUCCESS
        /\ Len(updates[m]) > 0
        /\ future[m] = "done"

\* C30: the first step of the job of a file whose name does not match the
\* pattern records skipped and ends the job: the provider is not asked (the
\* job never waits for metadata nor enters the rewrite), the folder's
\* archives and the file's translation_status stay as they were.
C30_BadNameSkippedAtOnce ==
    [][\A n \in Names :
          (jpc[n] = "start" /\ jpc'[n] # "start" /\ ~MatchesPattern(n)) =>
              /\ files'[n].status = STATUS_SKIPPED
              /\ files'[n].translation_status = files[n].translation_status
              /\ updates'[n] = Append(updates[n],
                                      [by |-> n, status |-> STATUS_SKIPPED])
              /\ jpc'[n] = "end"
              /\ future'[n] = "done"
              /\ disk' = disk
              /\ fs' = fs
              /\ OthersUntouched(n)]_vars

\* C30 witness: the job of the file with the three-digit id has ended, the
\* file is skipped and its archive is as it was
C30_Witness ==
    /\ Bad_zip \in DOMAIN files
    /\ jpc[Bad_zip] = "end"
    /\ files[Bad_zip].status = STATUS_SKIPPED
    /\ files[Bad_zip].translation_status = SeedRecord.translation_status
    /\ updates[Bad_zip] = <<[by |-> Bad_zip, status |-> STATUS_SKIPPED]>>
    /\ disk[Bad_zip] = Archive(Bad_zip, "none")
    /\ pc = "done"

---------------------------------------------------------------------------
(* The cancellation flag over the runs of one ZipMetadataAdder.            *)

\* the step begins a run: process_task is entered, or process_task_batch
\* calls _process_batch for a batch
RunStarts ==
    \/ pc = "idle" /\ pc' # "idle"
    \/ pc \in {"ready", "b_return"} /\ pc' = "b_dispatch"

\* C31: the cancellation flag is monotone.  Inside a run no step resets it,
\* and every run, each batch of process_task_batch included, starts with
\* the flag unset: what it holds later is a cancellation asked for during
\* that run.
C31_FlagMonotonePerRun ==
    [][IF RunStarts
       THEN ~shutdown_requested'
       ELSE shutdown_requested => shutdown_requested']_vars

---------------------------------------------------------------------------
(* The SIGINT handler of the process.                                      *)

\* process_task, or a call of _process_batch, has returned
RunReturned == pc \in {"done", "b_return"}

\* C38: process_task and _process_batch restore the SIGINT handler they
\* found on every exit path: when the run has returned, the handler of the
\* process is the one installed before the call.
C38_HandlerRestored ==
    RunReturned => sigint = original_sigint_handler

---------------------------------------------------------------------------
(* The files a batch of process_task_batch works on (under SpecBatch).     *)

\* _process_batch is running for the batch at batch_i
InBatchRun ==
    pc \in {"b_dispatch", "b_wait", "b_join",
            "t_dispatch", "t_sleep", "t_wait", "t_join"}

\* the names of the files of the current batch: the names in batch_files
\* and the .cbz names process_file gives them
BatchNames ==
    LET batch_files == BatchFiles(pending_files, batch_i, batch_size) IN
    {batch_files[k] : k \in 1..Len(batch_files)}
        \cup {CbzPath(batch_files[k]) : k \in 1..Len(batch_files)}

\* C37: a batch attempts, rewrites and updates only its own files.  No step
\* made while _process_batch runs for a batch changes the status, the
\* translation_status or the archive of a file outside that batch.
C37_BatchTouchesOnlyItsFiles ==
    [][InBatchRun =>
          \A n \in Names \ BatchNames :
              /\ n \in DOMAIN files =>
                    /\ n \in DOMAIN files'
                    /\ files'[n].status = files[n].status
                    /\ files'[n].translation_status = files[n].translation_status
              /\ n \in DOMAIN disk =>
                    /\ n \in DOMAIN disk'
                    /\ disk'[n] = disk[n]]_vars

---------------------------------------------------------------------------
(* The ids of the tasks (under SpecTasks).                                 *)

\* the step is a create_task call that made a new task
CreatedNewTask == last_op'.op = "create" /\ ~last_op'.existed

\* C32: after any sequence of create_task and delete_task calls the tasks
\* have distinct ids and distinct folder paths.  A create_task call that
\* makes a task takes an id no task has, made of the hash of the folder path
\* (with a numeric suffix when the bare hash is taken), and leaves every
\* other task's record and document as they were.
C32_DistinctTasks ==
    /\ [][CreatedNewTask =>
             LET task_id == last_op'.task_id IN
             /\ task_id \notin DOMAIN tasks
             /\ task_id[1] = md5_8(abspath(last_op'.path))
             /\ (TaskId(task_id[1], 0) \in DOMAIN tasks) = (task_id[2] > 0)
             /\ DOMAIN tasks' = DOMAIN tasks \cup {task_id}
             /\ \A id \in DOMAIN tasks : tasks'[id] = tasks[id]
             /\ \A id \in DOMAIN persisted \ {task_id} :
                   /\ id \in DOMAIN persisted'
                   /\ persisted'[id] = persisted[id]
             /\ task_id \in DOMAIN persisted => ~persisted[task_id].valid]_vars
    /\ [](\A a, b \in DOMAIN tasks :
             a # b => tasks[a].folder_path # tasks[b].folder_path)

\* C32 witness: two folders with the same hash both have a task, the later
\* one under the id with the suffix
C32_Witness ==
    /\ last_op.op = "create"
    /\ ~last_op.existed
    /\ last_op.task_id = TaskId("41ab", 1)
    /\ TaskId("41ab", 0) \in DOMAIN tasks
    /\ TaskId("41ab", 1) \in DOMAIN tasks
    /\ tasks[TaskId("41ab", 0)].folder_path # tasks[TaskId("41ab", 1)].folder_path

---------------------------------------------------------------------------
(* The retry of failed translations (under SpecBatch).                     *)

\* the step is the call of retry_failed_translations
RetryCalled == pc = "done" /\ pc' \in {"retry_returned", "retry_raised"}

\* retry_failed_translations has ended
RetryEnded == pc \in {"retry_returned", "retry_raised"}

\* C33: retry_failed_translations resets to pending exactly the files whose
\* translation_status is failed and leaves every other record as it was;
\* it then attempts their translation again, so that when it has ended
\* without cancellation each of them is success or failed, none pending.
C33_RetryReattempts ==
    /\ [][RetryCalled =>
             /\ DOMAIN files' = DOMAIN files
             /\ \A n \in DOMAIN files :
                   files'[n] =
                       IF files[n].translation_status = "failed"
                       THEN [files[n] EXCEPT !.translation_status = "pending"]
                       ELSE files[n]]_vars
    /\ []((RetryEnded /\ ~shutdown_requested) =>
             \A n \in SeqRange(files_to_process) :
                 files[n].translation_status \in {"success", "failed"})

---------------------------------------------------------------------------
(* The cache and the archive it was filled from (under SpecRewrite).       *)

\* the step is a get_cached_content call of translate_metadata_in_cbz that
\* returned the cached bytes of inner_path
CacheHit(inner_path) ==
    LET key == CacheKey(TranslatePath, inner_path) IN
    /\ rpc = "translate"
    /\ key \in DOMAIN cache
    /\ key \in DOMAIN access_count
    /\ key \in DOMAIN access_count'
    /\ access_count'[key] = access_count[key] + 1

\* C34: whenever the translation phase takes metadata.json or ComicInfo.xml
\* from the cache, the cached bytes are the entry's content in the archive
\* at that path as it is now; nothing cached before a rewrite of the archive
\* is used after it.
C34_CachedIsCurrent ==
    [][\A inner_path \in {"metadata.json", "ComicInfo.xml"} :
          CacheHit(inner_path) =>
              /\ HasEntry(fs[TranslatePath].entries, <<inner_path>>)
              /\ cache[CacheKey(TranslatePath, inner_path)] =
                     ReadEntry(fs[TranslatePath].entries, <<inner_path>>)]_vars

---------------------------------------------------------------------------
(* Runs of process_task in which no cancellation is asked for.             *)

\* every step of process_task and of its jobs; SIGINT is not one of them
Progress ==
    \/ StartTask
    \/ DispatchSubmit
    \/ DispatchStop
    \/ SleepDone
    \/ AsCompletedTimeout
    \/ ExecutorExit
    \/ \E filename \in Names : AsCompletedYield(filename)
    \/ \E filename \in Names : WorkerStart(filename)
    \/ \E filename \in Names : JobSkip(filename)
    \/ \E filename \in Names : JobNoMetadata(filename)
    \/ \E filename \in Names : JobGotMetadata(filename)
    \/ \E filename \in Names : JobRewriteEnd(filename)
    \/ \E filename \in Names : JobTranslateEnd(filename)
    \/ \E filename \in Names : JobFinal(filename)

\* a run during which no SIGINT arrives; the main thread and the workers of
\* the pool keep running
SpecUncancelled == Init /\ [][Progress]_vars /\ WF_vars(Progress)

\* process_task has returned and the flag was never set
ReturnedUncancelled == pc = "done" /\ ~shutdown_requested

---------------------------------------------------------------------------
(* The translation counters of a task (under SpecTasks).                   *)

\* the records whose translation_status is ts; a record without the field
\* counts as pending
CountTranslation(fmap, ts) ==
    Cardinality({n \in DOMAIN fmap :
                    IF ts = "pending"
                    THEN fmap[n].translation_status \in {"unset", "pending"}
                    ELSE fmap[n].translation_status = ts})

\* C36: once a task's statistics have the translation counters, each of
\* translation_success, translation_failed and translation_pending is the
\* number of records with that translation_status, so they sum to
\* len(files).
C36_TranslationCountersReflect ==
    \A id \in DOMAIN tasks :
        LET t == tasks[id] IN
        "translation_success" \in DOMAIN t.statistics =>
            /\ t.statistics.translation_success
                   = CountTranslation(t.files, "success")
            /\ t.statistics.translation_failed
                   = CountTranslation(t.files, "failed")
            /\ t.statistics.translation_pending
                   = CountTranslation(t.files, "pending")
            /\ t.statistics.translation_success + t.statistics.translation_failed
                   + t.statistics.translation_pending
                   = Cardinality(DOMAIN t.files)

---------------------------------------------------------------------------
(* The structure of a converted archive (under SpecRewrite).               *)

\* C39: normalization reaches a fixed point in one step.  When
\* convert_nested_to_flat has returned True for an archive classified
\* nested, analyze_zip_structure classifies the archive now at zip_path as
\* flat, so the injection that follows works on a flat archive.
C39_FlattenFixedPoint ==
    Converted =>
        analyze_zip_structure(fs[ZIP_PATH].entries).type = "flat"

=============================================================================
